---- MODULE Spec2Model ----
(***************************************************************************)
(* Verification model of nodeMetarMap: the decision logic that turns METAR *)
(* reports into flight categories and LED colours, and the cycle driver    *)
(* that animates the strip.                                                *)
(*                                                                         *)
(* JavaScript values are modelled as follows.  null and undefined are the  *)
(* markers Null and Undefined.  A value that may be a number, a string or  *)
(* absent is a tagged record: Num(n), Str(s), NullV, UndefV.  Strings are  *)
(* sequences of one-character strings.  Colours are [r, g, b] records.     *)
(***************************************************************************)
EXTENDS Integers, Sequences, FiniteSets, TLC

Null == "null"
Undefined == "undefined"

Num(n) == [t |-> "num", v |-> n]
Str(s) == [t |-> "str", s |-> s]
Arr(a) == [t |-> "arr", a |-> a]
NullV == [t |-> "null"]
UndefV == [t |-> "undefined"]

RGB(r, g, b) == [r |-> r, g |-> g, b |-> b]

\* The palette loadConfig builds when no COLOR_* variable is set.
DefaultColors ==
  [vfr |-> RGB(255, 0, 0), vfrFade |-> RGB(128, 0, 0),
   mvfr |-> RGB(0, 0, 255), mvfrFade |-> RGB(0, 0, 128),
   ifr |-> RGB(0, 255, 0), ifrFade |-> RGB(0, 128, 0),
   lifr |-> RGB(255, 0, 255), lifrFade |-> RGB(128, 0, 128),
   clear |-> RGB(0, 0, 0), lightning |-> RGB(255, 255, 255),
   highWinds |-> RGB(255, 255, 0)]

KnownCategories == {"VFR", "MVFR", "IFR", "LIFR"}

\* A fltCat string of the API response that is none of the four categories;
\* parseConditions passes any truthy fltCat through unchanged.
ForeignCategories == {"VLIFR"}

\* JavaScript truthiness of a flight category value (a string or null).
Falsy(x) == x \in {Null, Undefined, ""}

\* An AirportConditions object.
Cond(cat, ws, gs, gusty, ltg) ==
  [t |-> "obj", flightCategory |-> cat, windSpeed |-> ws,
   windGustSpeed |-> gs, windGust |-> gusty, lightning |-> ltg]

(***************************************************************************)
(* utils/colorMapper.ts                                                    *)
(***************************************************************************)

isWindy_NoPhase(conditions, windCycle, config) ==
  /\ config.activateWindAnimation
  /\ \/ conditions.windSpeed >= config.windBlinkThreshold
     \/ conditions.windGust

isWindy(conditions, windCycle, config) ==
  /\ config.activateWindAnimation
  /\ windCycle
  /\ \/ conditions.windSpeed >= config.windBlinkThreshold
     \/ conditions.windGust

isHighWinds_NoSentinel(conditions, windCycle, config) ==
  /\ isWindy(conditions, windCycle, config)
  /\ \/ conditions.windSpeed >= config.highWindsThreshold
     \/ conditions.windGustSpeed >= config.highWindsThreshold

isHighWinds(conditions, windCycle, config) ==
  /\ isWindy(conditions, windCycle, config)
  /\ config.highWindsThreshold # -1
  /\ \/ conditions.windSpeed >= config.highWindsThreshold
     \/ conditions.windGustSpeed >= config.highWindsThreshold

showLightning_OnPhase(conditions, windCycle, config) ==
  /\ config.activateLightningAnimation
  /\ windCycle
  /\ conditions.lightning

showLightning(conditions, windCycle, config) ==
  /\ config.activateLightningAnimation
  /\ ~windCycle
  /\ conditions.lightning

fadeColor(flightCategory, config) ==
  CASE flightCategory = "VFR" -> config.colors.vfrFade
    [] flightCategory = "MVFR" -> config.colors.mvfrFade
    [] flightCategory = "IFR" -> config.colors.ifrFade
    [] flightCategory = "LIFR" -> config.colors.lifrFade
    [] OTHER -> config.colors.clear

normalColor(flightCategory, config) ==
  CASE flightCategory = "VFR" -> config.colors.vfr
    [] flightCategory = "MVFR" -> config.colors.mvfr
    [] flightCategory = "IFR" -> config.colors.ifr
    [] flightCategory = "LIFR" -> config.colors.lifr
    [] OTHER -> config.colors.clear

hasNoCategory_Never(conditions) == FALSE

\* The guard of the second early return: !conditions.flightCategory.
hasNoCategory(conditions) == Falsy(conditions.flightCategory)

getColorForConditions(conditions, windCycle, config) ==
  IF conditions.t # "obj" THEN config.colors.clear
  ELSE IF hasNoCategory(conditions) THEN config.colors.clear
  ELSE IF showLightning(conditions, windCycle, config)
    THEN config.colors.lightning
  ELSE IF isHighWinds(conditions, windCycle, config)
    THEN config.colors.highWinds
  ELSE IF isWindy(conditions, windCycle, config)
    THEN IF config.fadeInsteadOfBlink
           THEN fadeColor(conditions.flightCategory, config)
           ELSE config.colors.clear
  ELSE normalColor(conditions.flightCategory, config)

legendWindy_Static(windCycle, config) ==
  IF config.activateWindAnimation THEN config.colors.vfr
  ELSE config.colors.clear

\* The windy indicator, entry 6 of the legend.
legendWindy(windCycle, config) ==
  IF config.activateWindAnimation
    THEN IF windCycle
           THEN IF config.fadeInsteadOfBlink THEN config.colors.vfrFade
                ELSE config.colors.clear
           ELSE config.colors.vfr
    ELSE config.colors.clear

getLegendColors(windCycle, config) ==
  << config.colors.vfr,
     config.colors.mvfr,
     config.colors.ifr,
     config.colors.lifr,
     IF config.activateLightningAnimation
       THEN IF windCycle THEN config.colors.vfr ELSE config.colors.lightning
       ELSE config.colors.clear,
     legendWindy(windCycle, config),
     IF config.activateWindAnimation /\ config.highWindsThreshold # -1
       THEN IF windCycle THEN config.colors.highWinds ELSE config.colors.vfr
       ELSE config.colors.clear >>

(***************************************************************************)
(* utils/flightCategory.ts                                                 *)
(*                                                                         *)
(* Visibility is a fraction of a statute mile.  The model counts it in     *)
(* units of 1/VisUnit mile, fine enough to hold every decimal string of    *)
(* at most MaxStrLen characters exactly.  Cloud bases are feet.            *)
(***************************************************************************)
MaxStrLen == 3

VisUnit == 10 ^ MaxStrLen

\* A CloudLayer: cover is a string, base is Num(feet) or UndefV.
Layer(cover, base) == [cover |-> cover, base |-> base]

visibilityMissing_ZeroAllowed(visibility) ==
  \/ visibility.t # "num"
  \/ visibility.v < 0

\* The guard of the first return: no usable visibility.
visibilityMissing(visibility) ==
  \/ visibility.t # "num"
  \/ visibility.v <= 0

\* layer.base || 0
cloudBase(layer) ==
  IF layer.base.t = "num" THEN layer.base.v ELSE 0

\* The covers that make a ceiling: broken, overcast, sky obscured.
ceilingCovers_WithScattered == {"SCT", "BKN", "OVC", "OVX"}

ceilingCovers == {"BKN", "OVC", "OVX"}

\* The loop over the layers; ceiling is NullV until a BKN/OVC/OVX layer
\* is met.
RECURSIVE ceilingLoop(_, _)
ceilingLoop(clouds, ceiling) ==
  IF clouds = <<>> THEN ceiling
  ELSE LET layer == Head(clouds)
           next == IF layer.cover \in ceilingCovers
                        /\ (ceiling.t = "null" \/ cloudBase(layer) < ceiling.v)
                     THEN Num(cloudBase(layer))
                     ELSE ceiling
       IN ceilingLoop(Tail(clouds), next)

findCeiling(skyConditions) ==
  LET clouds == IF skyConditions.t = "arr" THEN skyConditions.a ELSE <<>>
      ceiling == ceilingLoop(clouds, NullV)
  IN IF ceiling.t = "null" THEN 10000 ELSE ceiling.v

ceilingCategory_Inclusive(ceiling) ==
  IF ceiling <= 500 THEN "LIFR"
  ELSE IF ceiling <= 1000 THEN "IFR"
  ELSE IF ceiling <= 3000 THEN "MVFR"
  ELSE "VFR"

ceilingCategory(ceiling) ==
  IF ceiling < 500 THEN "LIFR"
  ELSE IF ceiling < 1000 THEN "IFR"
  ELSE IF ceiling < 3000 THEN "MVFR"
  ELSE "VFR"

visCategory(visibility) ==
  IF visibility < 1 * VisUnit THEN "LIFR"
  ELSE IF visibility < 3 * VisUnit THEN "IFR"
  ELSE IF visibility < 5 * VisUnit THEN "MVFR"
  ELSE "VFR"

categories == <<"VFR", "MVFR", "IFR", "LIFR">>

\* Array.prototype.indexOf, counting from 1 as sequences do.
indexOf(seq, x) == CHOOSE i \in 1..Len(seq) : seq[i] = x

MathMax(a, b) == IF a >= b THEN a ELSE b

calculateFlightCategory(visibility, skyConditions) ==
  IF visibilityMissing(visibility) THEN Null
  ELSE LET ceilingIndex ==
             indexOf(categories, ceilingCategory(findCeiling(skyConditions)))
           visIndex == indexOf(categories, visCategory(visibility.v))
       IN categories[MathMax(ceilingIndex, visIndex)]

\* String.prototype.replace('+', ''): removes the first "+" only.
RECURSIVE replaceFirstPlus(_)
replaceFirstPlus(s) ==
  IF s = <<>> THEN <<>>
  ELSE IF Head(s) = "+" THEN Tail(s)
  ELSE <<Head(s)>> \o replaceFirstPlus(Tail(s))

RECURSIVE trimStart(_)
trimStart(s) ==
  IF s # <<>> /\ Head(s) = " " THEN trimStart(Tail(s)) ELSE s

RECURSIVE trimEnd(_)
trimEnd(s) ==
  IF s # <<>> /\ s[Len(s)] = " " THEN trimEnd(SubSeq(s, 1, Len(s) - 1))
  ELSE s

\* String.prototype.trim
trim(s) == trimEnd(trimStart(s))

DigitChars == {"0", "1", "2", "3", "4", "5", "6", "7", "8", "9"}

DigitValue(c) ==
  CASE c = "0" -> 0 [] c = "1" -> 1 [] c = "2" -> 2 [] c = "3" -> 3
    [] c = "4" -> 4 [] c = "5" -> 5 [] c = "6" -> 6 [] c = "7" -> 7
    [] c = "8" -> 8 [] c = "9" -> 9

\* The longest prefix of s made of decimal digits.
RECURSIVE takeDigits(_)
takeDigits(s) ==
  IF s # <<>> /\ Head(s) \in DigitChars
    THEN <<Head(s)>> \o takeDigits(Tail(s))
    ELSE <<>>

\* Value of a digit string read as an integer.
RECURSIVE intValue(_)
intValue(ds) ==
  IF ds = <<>> THEN 0
  ELSE 10 * intValue(SubSeq(ds, 1, Len(ds) - 1)) + DigitValue(ds[Len(ds)])

\* Value, in 1/VisUnit, of a digit string read after the decimal point;
\* unit is the weight of its first digit.
RECURSIVE fracValue(_, _)
fracValue(ds, unit) ==
  IF ds = <<>> THEN 0
  ELSE DigitValue(Head(ds)) * unit + fracValue(Tail(ds), unit \div 10)

NaN == [t |-> "nan"]

\* The global parseFloat on strings without exponent or "Infinity": skip
\* leading white space, read an optional sign, digits, and an optional
\* point followed by digits; the longest such prefix is the number, and
\* there is none (NaN) when it holds no digit.
parseFloat(str) ==
  LET s0 == trimStart(str)
      signed == s0 # <<>> /\ Head(s0) \in {"+", "-"}
      sign == IF signed /\ Head(s0) = "-" THEN -1 ELSE 1
      s1 == IF signed THEN Tail(s0) ELSE s0
      ip == takeDigits(s1)
      s2 == SubSeq(s1, Len(ip) + 1, Len(s1))
      fp == IF s2 # <<>> /\ Head(s2) = "." THEN takeDigits(Tail(s2))
            ELSE <<>>
  IN IF ip = <<>> /\ fp = <<>> THEN NaN
     ELSE Num(sign * (intValue(ip) * VisUnit + fracValue(fp, VisUnit \div 10)))

cleanVisibility_Untrimmed(s) == replaceFirstPlus(s)

\* visibilityInput.replace('+', '').trim()
cleanVisibility(s) == trim(replaceFirstPlus(s))

parseVisibility(visibilityInput) ==
  IF visibilityInput.t \in {"undefined", "null"} THEN NullV
  ELSE IF visibilityInput.t = "num"
    THEN IF visibilityInput.v >= 0 THEN visibilityInput ELSE NullV
  ELSE IF visibilityInput.t = "str"
    THEN LET cleaned == cleanVisibility(visibilityInput.s)
         IN IF cleaned = <<>> THEN NullV
            ELSE LET visibility == parseFloat(cleaned)
                 IN IF visibility.t = "nan" \/ visibility.v < 0 THEN NullV
                    ELSE visibility
  ELSE NullV

(***************************************************************************)
(* services/metarService.ts                                                *)
(***************************************************************************)

\* A MetarData report, with the fields parseConditions reads.  wspd, wgst
\* are Num(knots) or UndefV; rawOb is Str(text) or UndefV; fltCat is a
\* category or Undefined; visib is Str, Num or UndefV; clouds is Arr or
\* UndefV.
Metar(icaoId, wspd, wgst, rawOb, fltCat, visib, clouds) ==
  [icaoId |-> icaoId, wspd |-> wspd, wgst |-> wgst, rawOb |-> rawOb,
   fltCat |-> fltCat, visib |-> visib, clouds |-> clouds]

\* String.prototype.includes
includes(s, sub) ==
  \E i \in 1..(Len(s) - Len(sub) + 1) :
    SubSeq(s, i, i + Len(sub) - 1) = sub

\* String.prototype.substring(start), start counted from 0.
substring(s, start) == SubSeq(s, start + 1, Len(s))

detectLightning_NoSentinel(rawOb) ==
  IF rawOb.t # "str" \/ rawOb.s = <<>> THEN FALSE
  ELSE LET relevant == substring(rawOb.s, 4)
       IN includes(relevant, <<"L", "T", "G">>)
            \/ includes(relevant, <<"T", "S">>)

detectLightning(rawOb) ==
  IF rawOb.t # "str" \/ rawOb.s = <<>> THEN FALSE
  ELSE IF includes(rawOb.s, <<"T", "S", "N", "O">>) THEN FALSE
  ELSE LET relevant == substring(rawOb.s, 4)
       IN includes(relevant, <<"L", "T", "G">>)
            \/ includes(relevant, <<"T", "S">>)

\* x || 0 on an optional number.
orZero(x) == IF x.t = "num" THEN x.v ELSE 0

gustFlag_AtOrAbove(windSpeed, windGustSpeed, config) ==
  \/ config.alwaysBlinkForGusts /\ windGustSpeed > 0
  \/ windGustSpeed >= config.windBlinkThreshold

gustFlag_FromWindSpeed(windSpeed, windGustSpeed, config) ==
  \/ config.alwaysBlinkForGusts /\ windSpeed > 0
  \/ windSpeed > config.windBlinkThreshold

\* The windGust flag of parseConditions.
gustFlag(windSpeed, windGustSpeed, config) ==
  \/ config.alwaysBlinkForGusts /\ windGustSpeed > 0
  \/ windGustSpeed > config.windBlinkThreshold

parseConditions(metar, config) ==
  LET windSpeed == orZero(metar.wspd)
      windGustSpeed == orZero(metar.wgst)
      windGust == gustFlag(windSpeed, windGustSpeed, config)
      lightning == detectLightning(metar.rawOb)
      flightCategory ==
        IF ~Falsy(metar.fltCat) THEN metar.fltCat
        ELSE calculateFlightCategory(parseVisibility(metar.visib),
                                     metar.clouds)
  IN Cond(flightCategory, windSpeed, windGustSpeed, windGust, lightning)

\* conditionsMap.get(code): undefined when the map has no entry.
mapGet(map, code) == IF code \in DOMAIN map THEN map[code] ELSE UndefV

\* conditionsMap.set(code, conditions)
mapSet(map, code, conditions) ==
  [k \in DOMAIN map \cup {code} |-> IF k = code THEN conditions ELSE map[k]]

EmptyMap == [k \in {} |-> NullV]

\* const conditionsMap = new Map(): every call of
\* fetchAndParseAllConditions fills a map of its own, whatever map the
\* previous call returned.
newMap_Previous(previous) == previous

newMap(previous) == EmptyMap

RECURSIVE buildConditionsMap_ByPosition(_, _, _)
buildConditionsMap_ByPosition(metarData, config, map) ==
  IF metarData = <<>> THEN map
  ELSE LET conditions == parseConditions(Head(metarData), config)
           code == config.airports[Cardinality(DOMAIN map) + 1].code
       IN buildConditionsMap_ByPosition(Tail(metarData), config,
                                        mapSet(map, code, conditions))

\* The loop of fetchAndParseAllConditions over the reports received: one
\* entry per report, keyed by the report's icaoId.
RECURSIVE buildConditionsMap(_, _, _)
buildConditionsMap(metarData, config, map) ==
  IF metarData = <<>> THEN map
  ELSE LET metar == Head(metarData)
           conditions == parseConditions(metar, config)
       IN buildConditionsMap(Tail(metarData), config,
                             mapSet(map, metar.icaoId, conditions))

(***************************************************************************)
(* services/ledService.ts                                                  *)
(***************************************************************************)

\* (color.r << 16) | (color.g << 8) | color.b, for components in 0..255.
pack(color) == color.r * 65536 + color.g * 256 + color.b

\* RealLedService.setPixel: an index outside the strip is skipped.
setPixel_Clamped(pixels, ledCount, index, color) ==
  IF index < 0 THEN [pixels EXCEPT ![0] = pack(color)]
  ELSE IF index >= ledCount THEN [pixels EXCEPT ![ledCount - 1] = pack(color)]
  ELSE [pixels EXCEPT ![index] = pack(color)]

setPixel(pixels, ledCount, index, color) ==
  IF index < 0 \/ index >= ledCount THEN pixels
  ELSE [pixels EXCEPT ![index] = pack(color)]

\* RealLedService.clear: this.pixels.fill(0).
clear_Keep(pixels) == pixels

clear(pixels) == [i \in DOMAIN pixels |-> 0]

\* The frame on the strip once the RealLedService constructor returns: it
\* ends with clear() and show().
constructorStrip(config) ==
  clear([i \in 0..(config.ledCount - 1) |-> 0])

\* RealLedService.cleanup: clear(), show(), then finalize() or reset().
\* stage names the call that throws, "none" when the pass completes.
CleanupStages == {"none", "show", "finalize"}

cleanup(pixels, strip, stage) ==
  [pixels |-> clear(pixels),
   strip |-> IF stage = "show" THEN strip ELSE clear(pixels),
   threw |-> stage # "none"]

(***************************************************************************)
(* index.ts: the cycle driver.  Three variants of main exist: the bounded  *)
(* run that addresses LED i for airport i ("bounded"), the bounded run     *)
(* with direct LED addressing and state export ("boundedExport"), and the  *)
(* continuous run ("continuous").                                          *)
(***************************************************************************)
Variants == {"bounded", "boundedExport", "continuous"}

\* Math.round(a / b) for positive integers a and b.
mathRoundDiv(a, b) == (2 * a + b) \div (2 * b)

shouldAnimate(config) ==
  config.activateWindAnimation \/ config.activateLightningAnimation

loopLimit_Truncated(config) ==
  IF shouldAnimate(config)
    THEN config.blinkTotalTimeSeconds \div config.blinkSpeed
    ELSE 1

loopLimit(config) ==
  IF shouldAnimate(config)
    THEN mathRoundDiv(config.blinkTotalTimeSeconds, config.blinkSpeed)
    ELSE 1

\* What the catch block around an update does: the continuous run logs and
\* sleeps 60 s before the next update, a bounded run calls process.exit(1).
onFetchError_AlwaysFatal(variant) ==
  [pc |-> "exited", exitCode |-> Num(1), sleepMs |-> 0]

onFetchError(variant) ==
  IF variant = "continuous"
    THEN [pc |-> "backoff", exitCode |-> NullV, sleepMs |-> 60 * 1000]
    ELSE [pc |-> "exited", exitCode |-> Num(1), sleepMs |-> 0]

\* main is suspended in an await, so that the event loop is free to run a
\* signal handler: the pending HTTP request of the fetch, the sleep between
\* two ticks, the sleep of the backoff.
suspended_FetchBlocks(pc) == pc \in {"sleep", "backoff"}

suspended(pc) == pc \in {"fetch", "sleep", "backoff"}

\* The time the continuous run animates between two updates.
updateIntervalMs(config) == config.metarUpdateInterval * 60 * 1000

\* The LED of the i-th configured airport.
airportLed(variant, config, i) ==
  IF variant = "bounded" THEN i - 1 ELSE config.airports[i].led

\* The airport loop of a tick, from airport i on.
RECURSIVE setAirportPixels(_, _, _, _, _, _)
setAirportPixels(pixels, variant, config, map, cycleFlag, i) ==
  IF i > Len(config.airports) THEN pixels
  ELSE LET conditions == mapGet(map, config.airports[i].code)
           color == getColorForConditions(conditions, cycleFlag, config)
       IN setAirportPixels(
            setPixel(pixels, config.ledCount,
                     airportLed(variant, config, i), color),
            variant, config, map, cycleFlag, i + 1)

maxAirportLed(config) ==
  CHOOSE m \in {config.airports[i].led : i \in 1..Len(config.airports)} :
    \A i \in 1..Len(config.airports) : config.airports[i].led <= m

legendStartIndex(variant, config) ==
  IF variant = "bounded"
    THEN Len(config.airports) + config.offsetLegendBy
    ELSE maxAirportLed(config) + 1 + config.offsetLegendBy

\* The legend loop of a tick, from legend entry i (counted from 1) on.
RECURSIVE setLegendPixels(_, _, _, _, _)
setLegendPixels(pixels, config, start, legendColors, i) ==
  IF i > Len(legendColors) THEN pixels
  ELSE setLegendPixels(
         setPixel(pixels, config.ledCount, start + i - 1, legendColors[i]),
         config, start, legendColors, i + 1)

\* The pixel buffer at the end of one tick, just before show().
tickPixels(pixels, variant, config, map, cycleFlag) ==
  LET afterAirports ==
        setAirportPixels(pixels, variant, config, map, cycleFlag, 1)
  IN IF config.showLegend
       THEN setLegendPixels(afterAirports, config,
                            legendStartIndex(variant, config),
                            getLegendColors(cycleFlag, config), 1)
       ELSE afterAirports

(***************************************************************************)
(* State.  Each function under study has its own harness: the inputs are   *)
(* drawn by the initial predicate and an action stores what the function   *)
(* returns.  A harness that is not running keeps its variables at Idle.    *)
(***************************************************************************)
VARIABLES
  rPc,          \* resolver harness: "in", "color", "done"
  rConditions,  \* AirportConditions | null | undefined
  rWindCycle,   \* the phase flag
  rConfig,      \* Config
  rColor,       \* result of getColorForConditions
  rLegend,      \* result of getLegendColors
  fPc,          \* classifier harness: "in", "done"
  fVisibility,  \* Num(v) | null | undefined
  fSky,         \* Arr(layers) | undefined
  fCategory,    \* result of calculateFlightCategory
  vPc,          \* visibility parser harness: "in", "done"
  vInput,       \* Str(s) | Num(v) | null | undefined
  vResult,      \* result of parseVisibility
  ePc,          \* report-to-colour harness: "in", "parsed", "done"
  eMetar,       \* the raw report
  eConfig,      \* Config
  eWindCycle,   \* the phase flag
  eConditions,  \* result of parseConditions
  eColor,       \* result of getColorForConditions on eConditions
  variant,      \* which main is running, "none" when the driver is idle
  dConfig,      \* the Config loadConfig returned
  dPc,          \* "fetch", "tick", "sleep", "backoff", "exit", "exited"
  metarData,    \* the reports of the latest response
  lastFetch,    \* outcome of the latest update attempt: "none", "ok", "error"
  conditionsMap,\* airport code -> AirportConditions
  windCycle,    \* the phase flag of the animation loop
  cycle,        \* ticks completed in the bounded loop
  elapsed,      \* blink periods slept since animateLEDs started
  pixels,       \* the LED buffer: index -> packed colour
  strip,        \* the frame last rendered by show()
  exitCode,     \* Num(code) once process.exit ran, NullV before
  shuttingDown, \* the flag of the shutdown handler
  cleanupResult,\* "none", or how the handler's cleanup ended: "ok", "threw"
  sleepMs,      \* argument of the sleep the driver is waiting in, 0 if none
  ticks,        \* frames committed by show() since the latest fetch
  flips,        \* phase flips since the latest fetch
  lastPhase,    \* phase of the latest committed frame: "none", "off", "on"
  sPc,          \* writer of the state file: "idle", "writing", "rename",
                \* "failed", or "off" when the harness is idle
  sState,       \* the MetarState passed to the running writeState
  sWrites,      \* writeState calls started so far
  inodes,       \* the files' contents: inode number -> JSON text written
  paths,        \* directory: path -> inode number, 0 when there is none
  committed,    \* the state of the latest completed writeState, NullV if none
  rdPc,         \* reader of the state file: "idle", "reading", "done"
  rdIno,        \* the inode readFile opened
  rdBuf,        \* the text readFile has read so far
  rdExpect,     \* committed, as it was when readFile opened the file
  rdResult,     \* what readState returned
  cPc,          \* start-up harness: "in", "running", "exited"
  cEnv,         \* the environment variables loadConfig reads
  cResult       \* the Config loadConfig returned, or ConfigError

rVars == <<rPc, rConditions, rWindCycle, rConfig, rColor, rLegend>>

fVars == <<fPc, fVisibility, fSky, fCategory>>

vVars == <<vPc, vInput, vResult>>

eVars == <<ePc, eMetar, eConfig, eWindCycle, eConditions, eColor>>

dVars == <<variant, dConfig, dPc, metarData, lastFetch, conditionsMap,
           windCycle, cycle, elapsed, pixels, strip, exitCode, shuttingDown,
           cleanupResult, sleepMs, ticks, flips, lastPhase>>

sVars == <<sPc, sState, sWrites, inodes, paths, committed, rdPc, rdIno,
           rdBuf, rdExpect, rdResult>>

cVars == <<cPc, cEnv, cResult>>

xVars == <<sVars, cVars>>

vars == <<rVars, fVars, vVars, eVars, dVars, xVars>>

Idle == "idle"

\* Wind and gust speeds (knots) around the two thresholds.
RSpeeds == {0, 14, 15, 24, 25, 30}

Configs(wbts, hwts, gustFlags) ==
  [activateWindAnimation : BOOLEAN,
   activateLightningAnimation : BOOLEAN,
   fadeInsteadOfBlink : BOOLEAN,
   windBlinkThreshold : wbts,
   highWindsThreshold : hwts,
   alwaysBlinkForGusts : gustFlags,
   colors : {DefaultColors}]

RConfigs == Configs({0, 15}, {-1, 10, 25}, {FALSE})

RConditions ==
  {NullV, UndefV} \cup
  {Cond(cat, ws, gs, gusty, ltg) :
     cat \in KnownCategories \cup ForeignCategories \cup {Null},
     ws \in RSpeeds, gs \in RSpeeds,
     gusty \in BOOLEAN, ltg \in BOOLEAN}

RIdle ==
  /\ rPc = Idle /\ rConditions = NullV /\ rWindCycle = FALSE
  /\ rConfig = NullV /\ rColor = NullV /\ rLegend = <<>>

FIdle ==
  /\ fPc = Idle /\ fVisibility = NullV /\ fSky = UndefV /\ fCategory = Null

VIdle ==
  /\ vPc = Idle /\ vInput = NullV /\ vResult = NullV

EIdle ==
  /\ ePc = Idle /\ eMetar = NullV /\ eConfig = NullV /\ eWindCycle = FALSE
  /\ eConditions = NullV /\ eColor = NullV

DIdle ==
  /\ variant = "none" /\ dConfig = NullV /\ dPc = Idle /\ metarData = <<>>
  /\ lastFetch = "none" /\ conditionsMap = <<>> /\ windCycle = FALSE
  /\ cycle = 0 /\ elapsed = 0 /\ pixels = <<>> /\ strip = <<>>
  /\ exitCode = NullV /\ shuttingDown = FALSE /\ cleanupResult = "none"
  /\ sleepMs = 0 /\ ticks = 0 /\ flips = 0
  /\ lastPhase = "none"

SIdle ==
  /\ sPc = "off" /\ sState = NullV /\ sWrites = 0 /\ inodes = <<>>
  /\ paths = NullV /\ committed = NullV /\ rdPc = "off" /\ rdIno = 0
  /\ rdBuf = <<>> /\ rdExpect = NullV /\ rdResult = NullV

CIdle ==
  /\ cPc = Idle /\ cEnv = NullV /\ cResult = NullV

InitResolver ==
  /\ FIdle /\ VIdle /\ EIdle /\ DIdle /\ SIdle /\ CIdle
  /\ rPc = "in"
  /\ rConditions \in RConditions
  /\ rWindCycle \in BOOLEAN
  /\ rConfig \in RConfigs
  /\ rColor = NullV
  /\ rLegend = <<>>

CallGetColorForConditions ==
  /\ rPc = "in"
  /\ rColor' = getColorForConditions(rConditions, rWindCycle, rConfig)
  /\ rPc' = "color"
  /\ UNCHANGED <<rConditions, rWindCycle, rConfig, rLegend, fVars, vVars, eVars, dVars, xVars>>

CallGetLegendColors ==
  /\ rPc = "color"
  /\ rLegend' = getLegendColors(rWindCycle, rConfig)
  /\ rPc' = "done"
  /\ UNCHANGED <<rConditions, rWindCycle, rConfig, rColor, fVars, vVars, eVars, dVars, xVars>>

NextResolver ==
  \/ CallGetColorForConditions
  \/ CallGetLegendColors

SpecResolver == InitResolver /\ [][NextResolver]_vars

(***************************************************************************)
(* Harness of calculateFlightCategory.                                     *)
(***************************************************************************)
MaxLayers == 2

Covers == {"SKC", "CLR", "FEW", "SCT", "BKN", "OVC", "OVX"}

\* Cloud bases (feet) on both sides of each ceiling threshold, or absent.
Bases == {UndefV} \cup {Num(b) : b \in {499, 500, 999, 1000, 2999, 3000}}

Layers == {Layer(c, b) : c \in Covers, b \in Bases}

SeqsUpTo(S, n) == UNION {[1..k -> S] : k \in 0..n}

SkyInputs == {UndefV} \cup {Arr(a) : a \in SeqsUpTo(Layers, MaxLayers)}

\* Visibilities on both sides of 0 and of each visibility threshold.
FVisibilities ==
  {NullV, UndefV} \cup
  {Num(v) : v \in {-VisUnit, -1, 0, 1, VisUnit - 1, VisUnit,
                   3 * VisUnit - 1, 3 * VisUnit, 5 * VisUnit - 1,
                   5 * VisUnit, 10 * VisUnit}}

InitClassifier ==
  /\ RIdle /\ VIdle /\ EIdle /\ DIdle /\ SIdle /\ CIdle
  /\ fPc = "in"
  /\ fVisibility \in FVisibilities
  /\ fSky \in SkyInputs
  /\ fCategory = Null

CallCalculateFlightCategory ==
  /\ fPc = "in"
  /\ fCategory' = calculateFlightCategory(fVisibility, fSky)
  /\ fPc' = "done"
  /\ UNCHANGED <<fVisibility, fSky, rVars, vVars, eVars, dVars, xVars>>

NextClassifier == CallCalculateFlightCategory

SpecClassifier == InitClassifier /\ [][NextClassifier]_vars

(***************************************************************************)
(* Harness of parseVisibility.                                             *)
(***************************************************************************)
VisChars == {"0", "1", "5", "+", "-", ".", " ", "A"}

VisStrings == SeqsUpTo(VisChars, MaxStrLen)

VisInputs ==
  {NullV, UndefV} \cup
  {Num(v) : v \in {-VisUnit, -1, 0, 1, VisUnit \div 2, 10 * VisUnit}} \cup
  {Str(s) : s \in VisStrings}

InitVisibility ==
  /\ RIdle /\ FIdle /\ EIdle /\ DIdle /\ SIdle /\ CIdle
  /\ vPc = "in"
  /\ vInput \in VisInputs
  /\ vResult = NullV

CallParseVisibility ==
  /\ vPc = "in"
  /\ vResult' = parseVisibility(vInput)
  /\ vPc' = "done"
  /\ UNCHANGED <<vInput, rVars, fVars, eVars, dVars, xVars>>

NextVisibility == CallParseVisibility

SpecVisibility == InitVisibility /\ [][NextVisibility]_vars

(***************************************************************************)
(* Harness of parseConditions followed by getColorForConditions, the path  *)
(* of one report from the fetch to its pixel.                              *)
(***************************************************************************)
ObsClear == <<"K", "J", "F", "K", " ", "1", "0", "S", "M">>

ObsThunder == <<"K", "J", "F", "K", " ", "T", "S">>

ObsLightning == <<"K", "J", "F", "K", " ", "L", "T", "G">>

ObsNoSensor == <<"K", "J", "F", "K", " ", "T", "S", "N", "O", " ", "L", "T", "G">>

\* A station whose identifier holds "TS", and a text shorter than an
\* identifier.
ObsStation == <<"K", "T", "S", "A", " ", "1", "0", "S", "M">>

ObsShort == <<"T", "S">>

ERawObs == {UndefV, Str(<<>>), Str(ObsClear), Str(ObsThunder),
            Str(ObsLightning), Str(ObsNoSensor), Str(ObsStation),
            Str(ObsShort)}

EWinds == {UndefV, Num(0), Num(5), Num(15), Num(30)}

EGusts == {UndefV, Num(0), Num(15), Num(30)}

EVisibs == {UndefV, Str(<<"1", "0", "+">>), Str(<<"-", "1">>),
            Num(4 * VisUnit), Num(0), Str(<<"A">>), Str(<<"+", " ", "5">>)}

EClouds == {UndefV, Arr(<<Layer("OVC", Num(999))>>),
            Arr(<<Layer("SCT", Num(999))>>)}

\* Reports with a category supplied by the API, and reports without one,
\* whose category comes from visibility and clouds.
EMetars ==
  {Metar("KJFK", ws, gs, ob, cat, vis, UndefV) :
     ws \in EWinds, gs \in EGusts, ob \in ERawObs, cat \in KnownCategories,
     vis \in {UndefV, Str(<<"-", "1">>)}} \cup
  {Metar("KJFK", ws, gs, ob, Undefined, vis, cl) :
     ws \in EWinds, gs \in EGusts, ob \in ERawObs, vis \in EVisibs,
     cl \in EClouds}

EConfigs == Configs({0, 15, 30}, {-1, 25}, BOOLEAN)

InitConditions ==
  /\ RIdle /\ FIdle /\ VIdle /\ DIdle /\ SIdle /\ CIdle
  /\ ePc = "in"
  /\ eMetar \in EMetars
  /\ eConfig \in EConfigs
  /\ eWindCycle \in BOOLEAN
  /\ eConditions = NullV
  /\ eColor = NullV

CallParseConditions ==
  /\ ePc = "in"
  /\ eConditions' = parseConditions(eMetar, eConfig)
  /\ ePc' = "parsed"
  /\ UNCHANGED <<eMetar, eConfig, eWindCycle, eColor, rVars, fVars, vVars,
                 dVars, xVars>>

ResolveParsedConditions ==
  /\ ePc = "parsed"
  /\ eColor' = getColorForConditions(eConditions, eWindCycle, eConfig)
  /\ ePc' = "done"
  /\ UNCHANGED <<eMetar, eConfig, eWindCycle, eConditions, rVars, fVars,
                 vVars, dVars, xVars>>

NextConditions ==
  \/ CallParseConditions
  \/ ResolveParsedConditions

SpecConditions == InitConditions /\ [][NextConditions]_vars

(***************************************************************************)
(* shared/metarState.ts: the exported state document.  A JSON text is the  *)
(* sequence of its tokens (keys, literals, brackets); commas, colons and   *)
(* white space carry nothing and are left out.                             *)
(***************************************************************************)
\* A JavaScript object: f maps the keys that are present to their values.
Obj(f) == [t |-> "object", f |-> f]

EmptyObject == [k \in {} |-> NullV]

\* The number Infinity, for which JSON has no literal.
InfinityV == [t |-> "infinity"]

Punct(c) == [t |-> "punct", c |-> c]

Key(k) == [t |-> "key", k |-> k]

\* The order in which the state objects are built, which is the order
\* JSON.stringify emits their keys in.
KeyOrder ==
  <<"timestamp", "airports", "code", "flightCategory", "visibility",
    "temperature", "config", "ledCount", "activeCount">>

RECURSIVE stringify(_)
RECURSIVE stringifyMembers_DropsNull(_, _)
RECURSIVE stringifyMembers(_, _)
RECURSIVE stringifyElements(_, _)

stringifyMembers_DropsNull(f, i) ==
  IF i > Len(KeyOrder) THEN <<>>
  ELSE LET k == KeyOrder[i]
       IN (IF k \in DOMAIN f /\ f[k].t \notin {"undefined", "null"}
             THEN <<Key(k)>> \o stringify(f[k])
             ELSE <<>>)
            \o stringifyMembers_DropsNull(f, i + 1)

\* The members of an object: a key whose value is undefined is skipped.
stringifyMembers(f, i) ==
  IF i > Len(KeyOrder) THEN <<>>
  ELSE LET k == KeyOrder[i]
       IN (IF k \in DOMAIN f /\ f[k].t # "undefined"
             THEN <<Key(k)>> \o stringify(f[k])
             ELSE <<>>)
            \o stringifyMembers(f, i + 1)

stringifyElements(a, i) ==
  IF i > Len(a) THEN <<>>
  ELSE stringify(a[i]) \o stringifyElements(a, i + 1)

\* JSON.stringify: a non-finite number is written as null.
stringify(value) ==
  CASE value.t = "object" ->
         <<Punct("{")>> \o stringifyMembers(value.f, 1) \o <<Punct("}")>>
    [] value.t = "arr" ->
         <<Punct("[")>> \o stringifyElements(value.a, 1) \o <<Punct("]")>>
    [] value.t = "infinity" -> <<NullV>>
    [] OTHER -> <<value>>

ParseFail == [ok |-> FALSE, v |-> NullV, rest |-> <<>>]

RECURSIVE parseValue(_)
RECURSIVE parseMembers(_, _)
RECURSIVE parseElements(_, _)

parseMembers(ts, f) ==
  IF ts = <<>> THEN ParseFail
  ELSE LET h == Head(ts)
       IN IF h.t = "punct"
            THEN IF h.c = "}"
                   THEN [ok |-> TRUE, v |-> Obj(f), rest |-> Tail(ts)]
                   ELSE ParseFail
          ELSE IF h.t = "key"
            THEN LET r == parseValue(Tail(ts))
                 IN IF r.ok
                      THEN parseMembers(
                             r.rest,
                             [k \in DOMAIN f \cup {h.k} |->
                                IF k = h.k THEN r.v ELSE f[k]])
                      ELSE ParseFail
          ELSE ParseFail

parseElements(ts, a) ==
  IF ts = <<>> THEN ParseFail
  ELSE LET h == Head(ts)
       IN IF h.t = "punct" /\ h.c = "]"
            THEN [ok |-> TRUE, v |-> Arr(a), rest |-> Tail(ts)]
          ELSE LET r == parseValue(ts)
               IN IF r.ok THEN parseElements(r.rest, Append(a, r.v))
                  ELSE ParseFail

parseValue(ts) ==
  IF ts = <<>> THEN ParseFail
  ELSE LET h == Head(ts)
       IN IF h.t \in {"num", "str", "null", "bool"}
            THEN [ok |-> TRUE, v |-> h, rest |-> Tail(ts)]
          ELSE IF h.t = "punct" /\ h.c = "{"
            THEN parseMembers(Tail(ts), EmptyObject)
          ELSE IF h.t = "punct" /\ h.c = "["
            THEN parseElements(Tail(ts), <<>>)
          ELSE ParseFail

SyntaxError == [t |-> "error", name |-> "SyntaxError"]

\* JSON.parse: throws on anything but one complete value.
JSONparse(text) ==
  LET r == parseValue(text)
  IN IF r.ok /\ r.rest = <<>> THEN r.v ELSE SyntaxError

StatePath == "state"

tempPath_InPlace(statePath) == statePath

\* `${this.statePath}.tmp`
tempPath(statePath) == "tmp"

(***************************************************************************)
(* Harness of MetarStateManager: one writer calling writeState, one reader *)
(* calling readState, over a directory of two paths.  fs.writeFile opens   *)
(* its path with truncation and writes the text in two chunks; fs.rename   *)
(* is atomic; fs.readFile opens the path and reads the opened file until   *)
(* it finds no more data.                                                  *)
(***************************************************************************)
MaxWrites == 2

\* The airport entries of a state: category VFR or null; visibility absent,
\* undefined, 10 or Infinity; temperature absent or -3.
AirportStates ==
  {Obj([code |-> Str("KAAA"), flightCategory |-> cat] @@ vis @@ temp) :
     cat \in {Str("VFR"), NullV},
     vis \in {EmptyObject, [visibility |-> UndefV],
              [visibility |-> Num(10)], [visibility |-> InfinityV]},
     temp \in {EmptyObject, [temperature |-> Num(-3)]}}

\* The states the n-th writeState may be given; n stands for the timestamp.
SStates(n) ==
  {Obj([timestamp |-> Str(n),
        airports |-> Arr(<<a>>),
        config |-> Obj([ledCount |-> Num(50), activeCount |-> Num(1)])]) :
     a \in AirportStates}

InitState ==
  /\ RIdle /\ FIdle /\ VIdle /\ EIdle /\ DIdle /\ CIdle
  /\ sPc = "idle"
  /\ sState = NullV
  /\ sWrites = 0
  /\ inodes = <<>>
  /\ paths = [state |-> 0, tmp |-> 0]
  /\ committed = NullV
  /\ rdPc = "idle"
  /\ rdIno = 0
  /\ rdBuf = <<>>
  /\ rdExpect = NullV
  /\ rdResult = NullV

oVars == <<rVars, fVars, vVars, eVars, dVars, cVars>>

\* writeState is called; fs.writeFile opens the temporary path, creating the
\* file or truncating the one a failed write left behind.
WriteStateBegin ==
  /\ sPc \in {"idle", "failed"}
  /\ sWrites < MaxWrites
  /\ sWrites' = sWrites + 1
  /\ sState' \in SStates(sWrites + 1)
  /\ LET p == tempPath(StatePath)
     IN IF paths[p] = 0
          THEN /\ inodes' = Append(inodes, <<>>)
               /\ paths' = [paths EXCEPT ![p] = Len(inodes) + 1]
          ELSE /\ inodes' = [inodes EXCEPT ![paths[p]] = <<>>]
               /\ paths' = paths
  /\ sPc' = "writing"
  /\ UNCHANGED <<committed, rdPc, rdIno, rdBuf, rdExpect, rdResult, oVars>>

\* fs.writeFile writes the next chunk of JSON.stringify(state).
WriteFileChunk ==
  /\ sPc = "writing"
  /\ LET text == stringify(sState)
         ino == paths[tempPath(StatePath)]
         half == Len(text) \div 2
         upto == IF Len(inodes[ino]) < half THEN half ELSE Len(text)
     IN /\ inodes' = [inodes EXCEPT ![ino] = SubSeq(text, 1, upto)]
        /\ sPc' = IF upto = Len(text) THEN "rename" ELSE "writing"
  /\ UNCHANGED <<sState, sWrites, paths, committed, rdPc, rdIno, rdBuf,
                 rdExpect, rdResult, oVars>>

\* fs.writeFile rejects (disk full, I/O error): writeState throws before the
\* rename.
WriteFileFails ==
  /\ sPc = "writing"
  /\ sPc' = "failed"
  /\ UNCHANGED <<sState, sWrites, inodes, paths, committed, rdPc, rdIno,
                 rdBuf, rdExpect, rdResult, oVars>>

\* fs.rename(tempPath, this.statePath).
Rename ==
  /\ sPc = "rename"
  /\ LET p == tempPath(StatePath)
     IN paths' = IF p = StatePath THEN paths
                 ELSE [paths EXCEPT ![StatePath] = paths[p], ![p] = 0]
  /\ committed' = sState
  /\ sPc' = "idle"
  /\ UNCHANGED <<sState, sWrites, inodes, rdPc, rdIno, rdBuf, rdExpect,
                 rdResult, oVars>>

\* readState is called; fs.readFile opens the state path, and ENOENT makes
\* readState return null.
ReadStateOpen ==
  /\ rdPc = "idle"
  /\ rdExpect' = committed
  /\ rdBuf' = <<>>
  /\ IF paths[StatePath] = 0
       THEN rdPc' = "done" /\ rdResult' = NullV /\ rdIno' = 0
       ELSE rdPc' = "reading" /\ rdResult' = rdResult
              /\ rdIno' = paths[StatePath]
  /\ UNCHANGED <<sPc, sState, sWrites, inodes, paths, committed, oVars>>

\* fs.readFile reads what the opened file holds beyond what it has read;
\* when there is nothing more, readState returns JSON.parse(content).
ReadFileChunk ==
  /\ rdPc = "reading"
  /\ IF Len(inodes[rdIno]) <= Len(rdBuf)
       THEN /\ rdResult' = JSONparse(rdBuf)
            /\ rdPc' = "done"
            /\ rdBuf' = rdBuf
       ELSE /\ rdBuf' = rdBuf \o SubSeq(inodes[rdIno], Len(rdBuf) + 1,
                                       Len(inodes[rdIno]))
            /\ rdPc' = "reading"
            /\ rdResult' = rdResult
  /\ UNCHANGED <<sPc, sState, sWrites, inodes, paths, committed, rdIno,
                 rdExpect, oVars>>

\* The reader goes on to its next readState call.
ReadStateReturns ==
  /\ rdPc = "done"
  /\ rdPc' = "idle"
  /\ rdResult' = NullV
  /\ rdBuf' = <<>>
  /\ rdIno' = 0
  /\ UNCHANGED <<sPc, sState, sWrites, inodes, paths, committed, rdExpect,
                 oVars>>

NextState ==
  \/ WriteStateBegin
  \/ WriteFileChunk
  \/ WriteFileFails
  \/ Rename
  \/ ReadStateOpen
  \/ ReadFileChunk
  \/ ReadStateReturns

SpecState == InitState /\ [][NextState]_vars

(***************************************************************************)
(* config.ts: loadConfig, for the settings of the colour resolver.  An     *)
(* environment variable is Str(characters) or UndefV; numbers read by      *)
(* getEnvNumber are in units of 1/VisUnit, as parseFloat returns them.     *)
(***************************************************************************)
ConfigError == [t |-> "error", name |-> "Error"]

\* String.prototype.split(',')
RECURSIVE split(_, _)
split(s, current) ==
  IF s = <<>> THEN <<current>>
  ELSE IF Head(s) = "," THEN <<current>> \o split(Tail(s), <<>>)
  ELSE split(Tail(s), Append(current, Head(s)))

\* Number(string) on strings of digits, "-", spaces and letters: white
\* space is trimmed, the empty string is 0, an optionally signed run of
\* digits is its value, anything else is NaN.
Number(s) ==
  LET t0 == trim(s)
      negative == t0 # <<>> /\ Head(t0) = "-"
      digits == IF negative THEN Tail(t0) ELSE t0
  IN IF t0 = <<>> THEN Num(0)
     ELSE IF digits # <<>> /\ takeDigits(digits) = digits
       THEN Num((IF negative THEN -1 ELSE 1) * intValue(digits))
     ELSE NaN

parseColor(colorStr) ==
  LET parts == [i \in DOMAIN split(colorStr, <<>>) |->
                  trim(split(colorStr, <<>>)[i])]
  IN IF Len(parts) # 3 THEN ConfigError
     ELSE LET r == Number(parts[1])
              g == Number(parts[2])
              b == Number(parts[3])
          IN IF r = NaN \/ g = NaN \/ b = NaN THEN ConfigError
             ELSE IF \/ r.v < 0 \/ r.v > 255 \/ g.v < 0 \/ g.v > 255
                     \/ b.v < 0 \/ b.v > 255
               THEN ConfigError
             ELSE RGB(r.v, g.v, b.v)

\* process.env[key] || defaultValue
getEnvString(value, defaultValue) ==
  IF value.t = "str" /\ value.s # <<>> THEN value.s ELSE defaultValue

getEnvNumber(value, defaultValue) ==
  IF value.t = "undefined" THEN Num(defaultValue)
  ELSE IF parseFloat(value.s) = NaN THEN ConfigError
  ELSE parseFloat(value.s)

\* The settings are parsed and checked in the order of the source; the
\* only check on a threshold is windBlinkThreshold < 0.
loadConfig(env) ==
  LET vfr == parseColor(getEnvString(env.COLOR_VFR,
                                     <<"2", "5", "5", ",", "0", ",", "0">>))
      windBlinkThreshold == getEnvNumber(env.WIND_BLINK_THRESHOLD,
                                         15 * VisUnit)
      highWindsThreshold == getEnvNumber(env.HIGH_WINDS_THRESHOLD,
                                         25 * VisUnit)
  IN IF vfr = ConfigError THEN ConfigError
     ELSE IF windBlinkThreshold = ConfigError THEN ConfigError
     ELSE IF highWindsThreshold = ConfigError THEN ConfigError
     ELSE IF windBlinkThreshold.v < 0 THEN ConfigError
     ELSE [t |-> "config",
           windBlinkThreshold |-> windBlinkThreshold.v,
           highWindsThreshold |-> highWindsThreshold.v,
           colors |-> [DefaultColors EXCEPT !.vfr = vfr]]

\* The checks loadConfig makes on the LED count, the legend and the timing
\* of the animation before it returns a Config: main runs only with a
\* Config that passes them.
loadConfigChecks(config) ==
  /\ ~(config.ledCount <= 0)
  /\ ~(Len(config.airports) + (IF config.showLegend THEN 7 ELSE 0)
         > config.ledCount)
  /\ ~(config.windBlinkThreshold < 0)
  /\ ~(config.blinkSpeed <= 0)
  /\ ~(config.blinkTotalTimeSeconds <= 0)
  /\ ~(config.offsetLegendBy < 0)

(***************************************************************************)
(* Harness of the start of main: loadConfig, then either the fatal exit of *)
(* the catch block or the run with the Config returned.                    *)
(***************************************************************************)
EnvThresholds ==
  {UndefV, Str(<<"-", "1">>), Str(<<"-", "5">>), Str(<<"0">>),
   Str(<<"1", "5">>), Str(<<"A">>)}

EnvColors ==
  {UndefV, Str(<<>>),
   Str(<<"2", "5", "5", ",", "0", ",", "0">>),
   Str(<<"2", "5", "6", ",", "0", ",", "0">>),
   Str(<<"-", "1", ",", "0", ",", "0">>),
   Str(<<"0", ",", "0">>),
   Str(<<"0", ",", "0", ",", "0", ",", "0">>),
   Str(<<"A", ",", "0", ",", "0">>),
   Str(<<"2", "5", "5", ",", ",", "0">>),
   Str(<<" ", "1", ",", " ", "2", " ", ",", "3">>)}

InitConfig ==
  /\ RIdle /\ FIdle /\ VIdle /\ EIdle /\ DIdle /\ SIdle
  /\ cPc = "in"
  /\ cEnv \in [WIND_BLINK_THRESHOLD : EnvThresholds,
               HIGH_WINDS_THRESHOLD : EnvThresholds,
               COLOR_VFR : EnvColors]
  /\ cResult = NullV

\* main awaits loadConfig inside its try; a throw ends in process.exit(1).
CallLoadConfig ==
  /\ cPc = "in"
  /\ cResult' = loadConfig(cEnv)
  /\ cPc' = IF loadConfig(cEnv) = ConfigError THEN "exited" ELSE "running"
  /\ UNCHANGED <<cEnv, rVars, fVars, vVars, eVars, dVars, sVars>>

NextConfig == CallLoadConfig

SpecConfig == InitConfig /\ [][NextConfig]_vars

(***************************************************************************)
(* The cycle driver.  A tick (the airport loop, the legend loop and        *)
(* show()) runs without suspension and is one action; the driver suspends  *)
(* only in the fetch and in sleep().  A sleep takes the time asked for.    *)
(***************************************************************************)
NumAirports == 2

MaxTotalTime == 3

TicksPerUpdate == 2

\* The blink speeds (seconds) of the continuous runs: with an update
\* interval of one minute they give 1..TicksPerUpdate ticks per update.
ContinuousSpeeds == {60 \div k : k \in 1..TicksPerUpdate}

BoundedSpeeds == {1, 3}

AirportCodes == <<"KAAA", "KBBB", "KCCC", "KDDD", "KEEE">>

\* Direct LED addressing of the airports file: in file order, or reversed.
LedMaps ==
  {[i \in 1..NumAirports |-> i - 1],
   [i \in 1..NumAirports |-> NumAirports - i]}

AirportLists ==
  {[i \in 1..NumAirports |-> [code |-> AirportCodes[i], led |-> m[i]]] :
     m \in LedMaps}

DConfigs ==
  {[activateWindAnimation |-> wa,
    activateLightningAnimation |-> la,
    fadeInsteadOfBlink |-> FALSE,
    windBlinkThreshold |-> 15,
    highWindsThreshold |-> 25,
    alwaysBlinkForGusts |-> FALSE,
    colors |-> DefaultColors,
    airports |-> al,
    ledCount |-> lc,
    showLegend |-> lg[1],
    offsetLegendBy |-> lg[2],
    blinkSpeed |-> bs,
    blinkTotalTimeSeconds |-> bt,
    metarUpdateInterval |-> 1] :
     wa \in BOOLEAN, la \in BOOLEAN, al \in AirportLists,
     lc \in {NumAirports, NumAirports + 7},
     lg \in {<<FALSE, 0>>, <<TRUE, 0>>, <<TRUE, 1>>},
     bs \in BoundedSpeeds \cup ContinuousSpeeds, bt \in 1..MaxTotalTime}

\* The reports the data source may return for one airport: windy MVFR
\* with a 30 kt gust, IFR with a thunderstorm, and a report without category
\* or visibility.
DReports(code) ==
  <<Metar(code, Num(5), Num(30), Str(ObsClear), "MVFR", UndefV, UndefV),
    Metar(code, UndefV, UndefV, Str(ObsThunder), "IFR", UndefV, UndefV),
    Metar(code, Num(20), UndefV, Str(ObsClear), Undefined, UndefV, UndefV)>>

\* The responses of the data source: a report for some of the requested
\* airports, in request order; the others are omitted.
RECURSIVE responseFrom(_, _, _)
responseFrom(present, kind, i) ==
  IF i > NumAirports THEN <<>>
  ELSE (IF i \in present THEN <<DReports(AirportCodes[i])[kind[i]]>>
        ELSE <<>>)
         \o responseFrom(present, kind, i + 1)

Responses ==
  {responseFrom(present, kind, 1) :
     present \in SUBSET (1..NumAirports),
     kind \in [1..NumAirports -> 1..3]}

Init ==
  /\ RIdle /\ FIdle /\ VIdle /\ EIdle /\ SIdle /\ CIdle
  /\ variant \in Variants
  /\ dConfig \in DConfigs
  /\ loadConfigChecks(dConfig)
  /\ (variant = "bounded" =>
        \A i \in 1..NumAirports : dConfig.airports[i].led = i - 1)
  /\ (variant = "continuous" =>
        /\ dConfig.blinkSpeed \in ContinuousSpeeds
        /\ dConfig.blinkTotalTimeSeconds = 1)
  /\ (variant # "continuous" => dConfig.blinkSpeed \in BoundedSpeeds)
  /\ dPc = "fetch"
  /\ metarData = <<>>
  /\ lastFetch = "none"
  /\ conditionsMap = EmptyMap
  /\ windCycle = FALSE
  /\ cycle = 0
  /\ elapsed = 0
  /\ pixels = clear([i \in 0..(dConfig.ledCount - 1) |-> 0])
  /\ strip = constructorStrip(dConfig)
  /\ exitCode = NullV
  /\ shuttingDown = FALSE
  /\ cleanupResult = "none"
  /\ sleepMs = 0
  /\ ticks = 0
  /\ flips = 0
  /\ lastPhase = "none"

hVars == <<rVars, fVars, vVars, eVars, xVars>>

\* fetchAndParseAllConditions returns; the animation loop is entered with
\* the phase off.
FetchSucceeds ==
  /\ dPc = "fetch"
  /\ \E resp \in Responses :
       /\ metarData' = resp
       /\ conditionsMap' =
            buildConditionsMap(resp, dConfig, newMap(conditionsMap))
  /\ lastFetch' = "ok"
  /\ windCycle' = FALSE
  /\ cycle' = 0
  /\ elapsed' = 0
  /\ ticks' = 0
  /\ flips' = 0
  /\ dPc' = IF variant # "continuous" /\ loopLimit(dConfig) = 0
              THEN "exit" ELSE "tick"
  /\ UNCHANGED lastPhase
  /\ UNCHANGED <<variant, dConfig, pixels, strip, exitCode, shuttingDown,
                 cleanupResult, sleepMs, hVars>>

\* The fetch (or the processing after it) throws: fatal in a bounded run,
\* logged and followed by the 60 s backoff in the continuous run.
FetchFails ==
  /\ dPc = "fetch"
  /\ lastFetch' = "error"
  /\ dPc' = onFetchError(variant).pc
  /\ sleepMs' = onFetchError(variant).sleepMs
  /\ exitCode' = IF onFetchError(variant).pc = "exited"
                   THEN onFetchError(variant).exitCode ELSE exitCode
  /\ UNCHANGED lastPhase
  /\ UNCHANGED <<variant, dConfig, metarData, conditionsMap, windCycle,
                 cycle, elapsed, pixels, strip, shuttingDown, cleanupResult,
                 ticks, flips, hVars>>

\* The 60 s sleep of the catch block ends; the while loop starts the next
\* update.
Backoff ==
  /\ dPc = "backoff"
  /\ dPc' = "fetch"
  /\ sleepMs' = 0
  /\ UNCHANGED lastPhase
  /\ UNCHANGED <<variant, dConfig, metarData, lastFetch, conditionsMap,
                 windCycle, cycle, elapsed, pixels, strip, exitCode,
                 shuttingDown, cleanupResult, ticks, flips, hVars>>

\* One tick: every airport's pixel, the legend, show(); then the sleep is
\* started unless this was the last cycle of a bounded run.
Tick ==
  /\ dPc = "tick"
  /\ pixels' = tickPixels(pixels, variant, dConfig, conditionsMap, windCycle)
  /\ strip' = pixels'
  /\ lastPhase' = (IF windCycle THEN "on" ELSE "off")
  /\ ticks' = ticks + 1
  /\ IF variant = "continuous" \/ cycle < loopLimit(dConfig) - 1
       THEN dPc' = "sleep" /\ sleepMs' = dConfig.blinkSpeed * 1000
       ELSE dPc' = "exit" /\ sleepMs' = 0
  /\ UNCHANGED <<variant, dConfig, metarData, lastFetch, conditionsMap,
                 windCycle, cycle, elapsed, exitCode, shuttingDown,
                 cleanupResult, flips, hVars>>

\* sleep(blinkSpeed) ends, then the phase flips; the continuous run leaves
\* animateLEDs for the next fetch once the update interval has elapsed.
SleepAndFlip ==
  /\ dPc = "sleep"
  /\ windCycle' = ~windCycle
  /\ flips' = flips + 1
  /\ sleepMs' = 0
  /\ IF variant = "continuous"
       THEN /\ elapsed' = elapsed + 1
            /\ cycle' = cycle
            /\ dPc' = IF (elapsed + 1) * dConfig.blinkSpeed * 1000
                             < updateIntervalMs(dConfig)
                        THEN "tick" ELSE "fetch"
       ELSE /\ cycle' = cycle + 1
            /\ elapsed' = elapsed
            /\ dPc' = "tick"
  /\ UNCHANGED lastPhase
  /\ UNCHANGED <<variant, dConfig, metarData, lastFetch, conditionsMap,
                 pixels, strip, exitCode, shuttingDown, cleanupResult, ticks,
                 hVars>>

\* process.exit(0) after the bounded loop.
ExitNormally ==
  /\ dPc = "exit"
  /\ exitCode' = Num(0)
  /\ dPc' = "exited"
  /\ UNCHANGED lastPhase
  /\ UNCHANGED <<variant, dConfig, metarData, lastFetch, conditionsMap,
                 windCycle, cycle, elapsed, pixels, strip, shuttingDown,
                 cleanupResult, sleepMs, ticks, flips, hVars>>

\* SIGTERM or SIGINT is delivered while main is suspended in an await (the
\* fetch, the sleep between ticks, the backoff).  The handler is synchronous:
\* it sets the flag, runs ledService.cleanup() and calls process.exit, with
\* code 0 when cleanup returned and 1 when it threw.
Shutdown ==
  /\ suspended(dPc)
  /\ ~shuttingDown
  /\ shuttingDown' = TRUE
  /\ \E stage \in CleanupStages :
       LET r == cleanup(pixels, strip, stage)
       IN /\ pixels' = r.pixels
          /\ strip' = r.strip
          /\ cleanupResult' = IF r.threw THEN "threw" ELSE "ok"
          /\ exitCode' = IF r.threw THEN Num(1) ELSE Num(0)
  /\ dPc' = "exited"
  /\ UNCHANGED lastPhase
  /\ UNCHANGED <<variant, dConfig, metarData, lastFetch, conditionsMap,
                 windCycle, cycle, elapsed, sleepMs, ticks, flips, hVars>>

Next ==
  \/ FetchSucceeds
  \/ FetchFails
  \/ Backoff
  \/ Tick
  \/ SleepAndFlip
  \/ ExitNormally
  \/ Shutdown

Spec == Init /\ [][Next]_vars

\* The timers of the sleeps fire, the fetch returns or fails within its
\* 15 s timeout, and the synchronous code between two awaits runs to the
\* next await.  No signal is ever required to arrive.
LiveSpec ==
  /\ Spec
  /\ WF_vars(FetchSucceeds \/ FetchFails)
  /\ WF_vars(Backoff)
  /\ WF_vars(Tick)
  /\ WF_vars(SleepAndFlip)
  /\ WF_vars(ExitNormally)

(***************************************************************************)
(* Properties of the colour resolver and the legend (SpecResolver).        *)
(***************************************************************************)
rResolved == rPc \in {"color", "done"}

rIsObject == rConditions.t = "obj"

rKnown == rIsObject /\ rConditions.flightCategory \in KnownCategories

\* C1: an absent condition (null or undefined) or a condition whose
\* flightCategory is null resolves to the configured clear colour, whatever
\* the phase, the wind and gust speeds, the gust and lightning flags and
\* the configuration are.
C1_AbsentOrUnknownIsClear ==
  (rResolved /\ (~rIsObject \/ rConditions.flightCategory = Null))
    => rColor = rConfig.colors.clear

C1_Witness ==
  /\ rResolved /\ rIsObject
  /\ rConditions.flightCategory = Null
  /\ rConditions.lightning /\ ~rWindCycle
  /\ rConfig.activateLightningAnimation
  /\ rColor = rConfig.colors.clear

\* The priority chain of the resolver, rule by rule, on the raw fields.
ChainLightning(c, p, cfg) ==
  cfg.activateLightningAnimation /\ ~p /\ c.lightning

ChainWindy(c, p, cfg) ==
  cfg.activateWindAnimation /\ p
    /\ (c.windSpeed >= cfg.windBlinkThreshold \/ c.windGust)

ChainHighWinds(c, p, cfg) ==
  ChainWindy(c, p, cfg) /\ cfg.highWindsThreshold # -1
    /\ (c.windSpeed >= cfg.highWindsThreshold
          \/ c.windGustSpeed >= cfg.highWindsThreshold)

NormalOf(cat, cfg) ==
  [VFR |-> cfg.colors.vfr, MVFR |-> cfg.colors.mvfr,
   IFR |-> cfg.colors.ifr, LIFR |-> cfg.colors.lifr][cat]

FadedOf(cat, cfg) ==
  [VFR |-> cfg.colors.vfrFade, MVFR |-> cfg.colors.mvfrFade,
   IFR |-> cfg.colors.ifrFade, LIFR |-> cfg.colors.lifrFade][cat]

ChainColor(c, p, cfg) ==
  IF ChainLightning(c, p, cfg) THEN cfg.colors.lightning
  ELSE IF ChainHighWinds(c, p, cfg) THEN cfg.colors.highWinds
  ELSE IF ChainWindy(c, p, cfg)
    THEN IF cfg.fadeInsteadOfBlink THEN FadedOf(c.flightCategory, cfg)
         ELSE cfg.colors.clear
  ELSE NormalOf(c.flightCategory, cfg)

\* C2: for a condition with a known category the resolver returns the colour
\* of the first matching rule of the chain lightning (off-phase) > high
\* winds (on-phase, threshold not -1) > windy (on-phase: faded colour in
\* fade mode, clear otherwise) > normal colour of the category.
C2_PriorityChain ==
  (rResolved /\ rKnown)
    => rColor = ChainColor(rConditions, rWindCycle, rConfig)

C2_Witness ==
  /\ rResolved /\ rKnown
  /\ rConditions.flightCategory = "IFR"
  /\ rWindCycle /\ rConfig.activateWindAnimation
  /\ rConfig.highWindsThreshold = -1
  /\ rConditions.windSpeed = 30 /\ rConfig.windBlinkThreshold = 15
  /\ rConfig.fadeInsteadOfBlink
  /\ rColor = rConfig.colors.ifrFade

\* C3: with lightning and wind display both enabled, a condition of known
\* category with lightning and with high-wind values (wind or gust at or
\* above the high-wind threshold, wind at or above the blink threshold or
\* gusty) resolves on the off-phase to the lightning colour, never to the
\* high-wind colour.
C3_LightningBeatsHighWinds ==
  ( /\ rResolved /\ rKnown
    /\ rConfig.activateLightningAnimation /\ rConfig.activateWindAnimation
    /\ rConditions.lightning
    /\ (rConditions.windSpeed >= rConfig.windBlinkThreshold
          \/ rConditions.windGust)
    /\ (rConditions.windSpeed >= rConfig.highWindsThreshold
          \/ rConditions.windGustSpeed >= rConfig.highWindsThreshold)
    /\ ~rWindCycle )
    => /\ rColor = rConfig.colors.lightning
       /\ rColor # rConfig.colors.highWinds

C3_Witness ==
  /\ rResolved /\ rKnown
  /\ rConfig.activateLightningAnimation /\ rConfig.activateWindAnimation
  /\ rConfig.highWindsThreshold = 25 /\ rConfig.windBlinkThreshold = 15
  /\ rConditions.lightning /\ rConditions.windGust
  /\ rConditions.windSpeed = 30 /\ rConditions.windGustSpeed = 30
  /\ ~rWindCycle
  /\ rColor = rConfig.colors.lightning

WindEffectColors(cfg) ==
  {cfg.colors.highWinds, cfg.colors.clear, cfg.colors.vfrFade,
   cfg.colors.mvfrFade, cfg.colors.ifrFade, cfg.colors.lifrFade}

\* C5: the lightning rule applies only on the off-phase and the wind rules
\* only on the on-phase, so they never apply together; a known category
\* shows the lightning colour only on the off-phase and a wind-effect colour
\* only on the on-phase; and when neither rule applies the output is the
\* normal colour of the category.
C5_AtMostOneEffect ==
  (rResolved /\ rIsObject) =>
    /\ ~( showLightning(rConditions, rWindCycle, rConfig)
          /\ isWindy(rConditions, rWindCycle, rConfig) )
    /\ showLightning(rConditions, rWindCycle, rConfig) => ~rWindCycle
    /\ isWindy(rConditions, rWindCycle, rConfig) => rWindCycle
    /\ isHighWinds(rConditions, rWindCycle, rConfig) => rWindCycle
    /\ rKnown =>
         /\ rColor = rConfig.colors.lightning => ~rWindCycle
         /\ rColor \in WindEffectColors(rConfig) => rWindCycle
         /\ ( ~showLightning(rConditions, rWindCycle, rConfig)
              /\ ~isWindy(rConditions, rWindCycle, rConfig) )
              => rColor = NormalOf(rConditions.flightCategory, rConfig)

C5_Witness ==
  /\ rResolved /\ rKnown
  /\ rConfig.activateLightningAnimation /\ rConfig.activateWindAnimation
  /\ rConditions.lightning /\ rConditions.windGust
  /\ rWindCycle
  /\ rConfig.highWindsThreshold = -1 /\ ~rConfig.fadeInsteadOfBlink
  /\ rColor = rConfig.colors.clear

\* The three reference airports of the legend: a VFR airport that is windy
\* but has no high winds and no lightning, one with lightning only, and one
\* with high winds and no lightning.
LegendWindyAirport(c, cfg) ==
  /\ c.t = "obj" /\ c.flightCategory = "VFR" /\ ~c.lightning
  /\ c.windSpeed >= cfg.windBlinkThreshold
  /\ \/ cfg.highWindsThreshold = -1
     \/ /\ c.windSpeed < cfg.highWindsThreshold
        /\ c.windGustSpeed < cfg.highWindsThreshold

LegendLightningAirport(c, cfg) ==
  /\ c.t = "obj" /\ c.flightCategory = "VFR" /\ c.lightning
  /\ c.windSpeed < cfg.windBlinkThreshold /\ ~c.windGust

LegendHighWindsAirport(c, cfg) ==
  /\ c.t = "obj" /\ c.flightCategory = "VFR" /\ ~c.lightning
  /\ cfg.highWindsThreshold # -1
  /\ (c.windSpeed >= cfg.windBlinkThreshold \/ c.windGust)
  /\ (c.windSpeed >= cfg.highWindsThreshold
        \/ c.windGustSpeed >= cfg.highWindsThreshold)

\* C6 as stated: at every phase and for every configuration, animations
\* enabled or not, the legend's lightning, wind and high-wind indicators
\* (entries 5, 6, 7 counting from 1) equal the resolver's colour for the
\* matching VFR reference airport.
C6_LegendAgreesAlways ==
  rPc = "done" =>
    /\ LegendLightningAirport(rConditions, rConfig) => rLegend[5] = rColor
    /\ LegendWindyAirport(rConditions, rConfig) => rLegend[6] = rColor
    /\ LegendHighWindsAirport(rConditions, rConfig) => rLegend[7] = rColor

\* C6 amended: each indicator equals the resolver's colour for its reference
\* airport at the same phase when its animation is enabled (lightning
\* display; wind display; wind display with a high-wind threshold other than
\* -1), and is the clear colour when its animation is disabled.
C6_LegendAgreesWhenEnabled ==
  rPc = "done" =>
    /\ IF rConfig.activateLightningAnimation
         THEN LegendLightningAirport(rConditions, rConfig)
                => rLegend[5] = rColor
         ELSE rLegend[5] = rConfig.colors.clear
    /\ IF rConfig.activateWindAnimation
         THEN LegendWindyAirport(rConditions, rConfig)
                => rLegend[6] = rColor
         ELSE rLegend[6] = rConfig.colors.clear
    /\ IF rConfig.activateWindAnimation /\ rConfig.highWindsThreshold # -1
         THEN LegendHighWindsAirport(rConditions, rConfig)
                => rLegend[7] = rColor
         ELSE rLegend[7] = rConfig.colors.clear

C6_Witness ==
  /\ rPc = "done"
  /\ rConfig.activateWindAnimation /\ rConfig.fadeInsteadOfBlink
  /\ rWindCycle
  /\ LegendWindyAirport(rConditions, rConfig)
  /\ rLegend[6] = rConfig.colors.vfrFade
  /\ rColor = rConfig.colors.vfrFade

rForeign == rIsObject /\ rConditions.flightCategory \in ForeignCategories

\* C11: a condition whose category is a string outside VFR, MVFR, IFR, LIFR
\* resolves to the clear colour for every phase, every lightning and wind
\* value and every configuration, exactly like a null category.
C11_ForeignCategoryIsClear ==
  (rResolved /\ rForeign) => rColor = rConfig.colors.clear

(***************************************************************************)
(* Properties of the flight-category classifier (SpecClassifier).          *)
(***************************************************************************)
fLayers == IF fSky.t = "arr" THEN fSky.a ELSE <<>>

\* The bases of the ceiling layers of the input, an absent base read as 0.
fCeilingBases ==
  {IF fLayers[i].base.t = "num" THEN fLayers[i].base.v ELSE 0 :
     i \in {j \in 1..Len(fLayers) : fLayers[j].cover \in {"BKN", "OVC", "OVX"}}}

\* The ceiling of the input: the lowest such base, 10000 when there is none.
fCeiling ==
  IF fCeilingBases = {} THEN 10000
  ELSE CHOOSE c \in fCeilingBases : \A d \in fCeilingBases : c <= d

\* C7: calculateFlightCategory returns null (UNKNOWN) whenever the
\* visibility is null, undefined, zero or negative, whatever the cloud
\* layers are, the empty and the absent list included.
C7_NoVisibilityIsUnknown ==
  (fPc = "done" /\ (fVisibility.t # "num" \/ fVisibility.v <= 0))
    => fCategory = Null

C7_Witness ==
  /\ fPc = "done"
  /\ fVisibility = Num(0)
  /\ fSky.t = "arr" /\ Len(fSky.a) = 2
  /\ fSky.a[1] = Layer("OVC", Num(499))
  /\ fCategory = Null

stripTrailingPlus(s) ==
  IF s # <<>> /\ s[Len(s)] = "+" THEN SubSeq(s, 1, Len(s) - 1) ELSE s

\* The reference parser: a number is kept when >= 0; a string loses one
\* trailing "+", is trimmed, and is read as a decimal number; everything
\* else is UNKNOWN.
RefParseVisibility(input) ==
  IF input.t = "num" THEN (IF input.v >= 0 THEN input ELSE NullV)
  ELSE IF input.t = "str"
    THEN LET cleaned == trim(stripTrailingPlus(input.s))
             x == parseFloat(cleaned)
         IN IF cleaned = <<>> \/ x.t = "nan" THEN NullV
            ELSE IF x.v < 0 THEN NullV
            ELSE x
  ELSE NullV

\* C9: parseVisibility agrees with the reference parser on every input:
\* numbers, strings "X" and "X+", empty, malformed and negative strings,
\* null and undefined.
C9_AgreesWithReference ==
  vPc = "done" => vResult = RefParseVisibility(vInput)

(***************************************************************************)
(* Properties of a report's path to its colour (SpecConditions).           *)
(***************************************************************************)
\* C4: wind effects show on the on-phase only.  A report parsed into a known
\* category without lightning resolves on the off-phase to the normal colour
\* of its category, whatever its wind and gust are.  With wind display on
\* and a blink threshold between the two winds of the examples (5 kt, 30 kt):
\* category MVFR, gust 30, high-wind threshold 25 gives the high-wind colour
\* on the on-phase and the normal MVFR colour on the off-phase; category
\* VFR, wind 5, no gust gives the normal VFR colour on the on-phase.
C4_WindEffectsOnlyOnPhase ==
  (ePc = "done" /\ eConditions.flightCategory \in KnownCategories
     /\ ~eConditions.lightning) =>
    /\ ~eWindCycle => eColor = NormalOf(eConditions.flightCategory, eConfig)
    /\ ( /\ eMetar.fltCat = "MVFR" /\ eMetar.wgst = Num(30)
         /\ eConfig.highWindsThreshold = 25
         /\ eConfig.activateWindAnimation
         /\ eConfig.windBlinkThreshold < 30 )
         => eColor = IF eWindCycle THEN eConfig.colors.highWinds
                     ELSE eConfig.colors.mvfr
    /\ ( /\ eMetar.fltCat = "VFR" /\ eMetar.wspd = Num(5)
         /\ eMetar.wgst \in {UndefV, Num(0)}
         /\ eConfig.windBlinkThreshold > 5
         /\ eWindCycle )
         => eColor = eConfig.colors.vfr

C4_Witness ==
  /\ ePc = "done"
  /\ eMetar.fltCat = "MVFR" /\ eMetar.wgst = Num(30) /\ eMetar.wspd = UndefV
  /\ eConfig.highWindsThreshold = 25 /\ eConfig.windBlinkThreshold = 15
  /\ eConfig.activateWindAnimation /\ ~eConfig.alwaysBlinkForGusts
  /\ ~eConditions.lightning
  /\ eWindCycle
  /\ eColor = eConfig.colors.highWinds

\* C12: with wind display enabled, on the on-phase, a report of known
\* category without high winds whose wind speed or gust speed is at or above
\* the blink threshold (a gust exactly at the threshold with a lower wind
\* speed included) is shown, after parseConditions and
\* getColorForConditions, with the windy effect: the faded colour of its
\* category in fade mode, the clear colour otherwise.
C12_WindyAtOrAboveThreshold ==
  ( /\ ePc = "done"
    /\ eConfig.activateWindAnimation /\ eWindCycle
    /\ eConditions.flightCategory \in KnownCategories
    /\ \/ eConfig.highWindsThreshold = -1
       \/ /\ eConditions.windSpeed < eConfig.highWindsThreshold
          /\ eConditions.windGustSpeed < eConfig.highWindsThreshold
    /\ \/ eConditions.windSpeed >= eConfig.windBlinkThreshold
       \/ eConditions.windGustSpeed >= eConfig.windBlinkThreshold )
    => eColor = IF eConfig.fadeInsteadOfBlink
                  THEN FadedOf(eConditions.flightCategory, eConfig)
                  ELSE eConfig.colors.clear

(***************************************************************************)
(* Properties of the cycle driver (Spec).                                  *)
(***************************************************************************)
\* The airports the latest response holds a report for.
Reported == {metarData[i].icaoId : i \in 1..Len(metarData)}

\* A tick has just been committed.
JustTicked ==
  \/ dPc = "sleep"
  \/ dPc = "exit" /\ loopLimit(dConfig) > 0

PixelOf(i) ==
  IF variant = "bounded" THEN i - 1 ELSE dConfig.airports[i].led

\* C10: in the bounded and in the continuous run, a configured airport for
\* which the current fetch returned no report has no entry in the condition
\* map, and after every tick, on either phase, its pixel holds the clear
\* colour in the buffer and on the strip; a response that omits airports
\* leads to ticks, never to the failure path (the backoff, or exit code 1
\* other than the shutdown handler's after a failed cleanup).
C10_MissingReportIsClear ==
  /\ (lastFetch = "ok" /\ dPc \in {"tick", "sleep", "exit"}) =>
       \A i \in 1..Len(dConfig.airports) :
         dConfig.airports[i].code \notin Reported
           => dConfig.airports[i].code \notin DOMAIN conditionsMap
  /\ (lastFetch = "ok" /\ JustTicked) =>
       \A i \in 1..Len(dConfig.airports) :
         dConfig.airports[i].code \notin Reported
           => /\ pixels[PixelOf(i)] = pack(dConfig.colors.clear)
              /\ strip[PixelOf(i)] = pack(dConfig.colors.clear)
  /\ lastFetch = "ok" =>
       /\ dPc # "backoff"
       /\ exitCode = Num(1) => cleanupResult = "threw"

C10_Witness ==
  /\ variant = "continuous"
  /\ lastFetch = "ok" /\ JustTicked /\ windCycle
  /\ dConfig.airports[1].code \notin Reported
  /\ dConfig.airports[2].code \in Reported
  /\ dConfig.activateWindAnimation
  /\ pixels[PixelOf(1)] = pack(dConfig.colors.clear)
  /\ pixels[PixelOf(2)] = pack(dConfig.colors.highWinds)
  /\ strip = pixels

\* C13: in the continuous run a failed update never stops the driver: the
\* process has not exited unless the shutdown handler ran; the driver is in
\* the backoff only after a failed update and then sleeps 60 000 ms; the
\* backoff ends only in a new fetch (or in the handler's exit); every backoff
\* is followed by a fetch attempt and a fetch is attempted again and again,
\* as long as no shutdown signal arrives.
C13_ContinuousRetriesForever ==
  /\ []( (variant = "continuous" /\ ~shuttingDown)
          => (dPc \notin {"exit", "exited"} /\ exitCode = NullV) )
  /\ []( (variant = "continuous" /\ dPc = "backoff")
          => (lastFetch = "error" /\ sleepMs = 60000) )
  /\ [][ (variant = "continuous" /\ dPc = "fetch" /\ lastFetch' = "error"
           /\ ~shuttingDown') => dPc' = "backoff" ]_vars
  /\ [][ (dPc = "backoff" /\ ~shuttingDown') => dPc' = "fetch" ]_vars
  /\ (variant = "continuous" /\ dPc = "backoff")
       ~> (dPc = "fetch" \/ shuttingDown)
  /\ (variant = "continuous") => []<>(dPc = "fetch" \/ shuttingDown)

C13_Witness ==
  /\ variant = "continuous" /\ dPc = "fetch" /\ lastFetch = "error"
  /\ ticks > 0 /\ ~shuttingDown /\ exitCode = NullV

\* round(total duration / cycle length), half rounded up.
RoundedQuotient(total, length) ==
  CHOOSE n \in 0..(total + 1) :
    /\ 2 * length * n <= 2 * total + length
    /\ 2 * total + length < 2 * length * (n + 1)

\* The number of ticks a bounded run must perform.
ExpectedTicks ==
  IF dConfig.activateWindAnimation \/ dConfig.activateLightningAnimation
    THEN RoundedQuotient(dConfig.blinkTotalTimeSeconds, dConfig.blinkSpeed)
    ELSE 1

\* The frame a tick on phase p must commit: every airport's resolved colour
\* at its LED, followed by the legend when it is enabled.
ExpectedFrame(p) ==
  [i \in 0..(dConfig.ledCount - 1) |->
     IF \E a \in 1..Len(dConfig.airports) : PixelOf(a) = i
       THEN LET a == CHOOSE a \in 1..Len(dConfig.airports) : PixelOf(a) = i
            IN pack(getColorForConditions(
                      mapGet(conditionsMap, dConfig.airports[a].code),
                      p, dConfig))
     ELSE IF /\ dConfig.showLegend
             /\ i - NumAirports - dConfig.offsetLegendBy \in 0..6
       THEN pack(getLegendColors(p, dConfig)
                   [i - NumAirports - dConfig.offsetLegendBy + 1])
     ELSE 0]

\* The state of an uninterrupted bounded run after its fetch.
C14_TickInvariant ==
  (variant \in {"bounded", "boundedExport"} /\ lastFetch = "ok"
     /\ ~shuttingDown) =>
    /\ ticks <= ExpectedTicks
    /\ windCycle = (flips % 2 = 1)
    /\ dPc = "tick" => (flips = ticks /\ ticks < ExpectedTicks)
    /\ dPc = "sleep" =>
         /\ flips = ticks - 1 /\ ticks < ExpectedTicks
         /\ sleepMs = dConfig.blinkSpeed * 1000
    /\ (dPc \in {"sleep", "exit", "exited"} /\ ticks > 0) =>
         /\ strip = ExpectedFrame(windCycle)
         /\ flips = ticks - 1
    /\ dPc \in {"exit", "exited"} => ticks = ExpectedTicks
    /\ dPc = "exited" => exitCode = Num(0)

\* C14: a bounded run that is not interrupted by a signal starts the
\* animation with the phase off; each tick commits one frame holding every
\* airport's colour (and the legend if enabled) for the current phase; a
\* wait of blinkSpeed seconds followed by a phase flip happens between two
\* ticks only, so that the flips number the ticks less one; and the run
\* ends, with exit code 0, after exactly round(total / cycle length) ticks
\* when an animation is enabled and after exactly one tick otherwise.
C14_BoundedRunTicksExactly ==
  /\ []C14_TickInvariant
  /\ (variant \in {"bounded", "boundedExport"} /\ lastFetch = "ok")
       ~> (dPc = "exited")

C14_Witness ==
  /\ variant = "boundedExport" /\ dPc = "exited" /\ exitCode = Num(0)
  /\ dConfig.blinkTotalTimeSeconds = 3 /\ dConfig.blinkSpeed = 1
  /\ dConfig.activateWindAnimation /\ dConfig.showLegend
  /\ ticks = 3 /\ flips = 2 /\ ~windCycle

AllOff(frame) == \A i \in DOMAIN frame : frame[i] = 0

\* C15: once the shutdown handler has run, the process has exited and the
\* handler's cleanup pass has been made: when the pass succeeded every
\* output is off, in the buffer and on the strip, and the exit code is 0;
\* when it threw the exit code is 1; and no frame is committed after the
\* handler (the strip and the tick count never change again).
C15_ShutdownCleansUpThenExits ==
  /\ []( shuttingDown =>
          /\ dPc = "exited"
          /\ cleanupResult \in {"ok", "threw"}
          /\ AllOff(pixels)
          /\ cleanupResult = "ok" => (AllOff(strip) /\ exitCode = Num(0))
          /\ cleanupResult = "threw" => exitCode = Num(1) )
  /\ []( cleanupResult # "none" => shuttingDown )
  /\ [][ shuttingDown => (strip' = strip /\ ticks' = ticks) ]_vars

\* The signal arrives during the sleep that follows a tick which lit LEDs.
C15_Witness ==
  /\ shuttingDown /\ cleanupResult = "ok" /\ exitCode = Num(0)
  /\ sleepMs = dConfig.blinkSpeed * 1000 /\ ticks > 0
  /\ \E i \in 1..Len(dConfig.airports) :
       /\ dConfig.airports[i].code \in DOMAIN conditionsMap
       /\ conditionsMap[dConfig.airports[i].code].flightCategory = "IFR"
  /\ AllOff(strip)

\* C16: a bounded run whose fetch fails exits with a nonzero code, and a
\* pass that sets every output to off (ledService.cleanup) has been
\* attempted between the error and the exit.
C16_FetchErrorExitsAfterCleanup ==
  (variant \in {"bounded", "boundedExport"} /\ lastFetch = "error") =>
    /\ dPc = "exited"
    /\ exitCode.t = "num" /\ exitCode.v # 0
    /\ cleanupResult \in {"ok", "threw"}

\* C17: whenever a bounded run has exited, normal completion after the last
\* animation cycle included, every LED of the strip is off.
C17_BoundedExitLeavesLedsOff ==
  (variant \in {"bounded", "boundedExport"} /\ dPc = "exited")
    => AllOff(strip)

(***************************************************************************)
(* Properties of the exported state document (SpecState).                  *)
(***************************************************************************)
\* s and r are equal field for field: every field of s with a value has the
\* same value in r, a field absent or undefined in s has no value in r, and
\* r has no field that s lacks.
RECURSIVE SameDocument(_, _)
SameDocument(s, r) ==
  CASE s.t = "object" ->
         /\ r.t = "object"
         /\ DOMAIN r.f \subseteq DOMAIN s.f
         /\ \A k \in DOMAIN s.f :
              IF s.f[k].t = "undefined"
                THEN k \notin DOMAIN r.f
                ELSE k \in DOMAIN r.f /\ SameDocument(s.f[k], r.f[k])
    [] s.t = "arr" ->
         /\ r.t = "arr"
         /\ Len(r.a) = Len(s.a)
         /\ \A i \in 1..Len(s.a) : SameDocument(s.a[i], r.a[i])
    [] OTHER -> s = r

RECURSIVE AllFinite(_)
AllFinite(s) ==
  CASE s.t = "object" -> \A k \in DOMAIN s.f : AllFinite(s.f[k])
    [] s.t = "arr" -> \A i \in 1..Len(s.a) : AllFinite(s.a[i])
    [] OTHER -> s.t # "infinity"

\* C18 as stated: a readState that starts after writeState(s) has completed,
\* with no later writeState completed before it, returns a document equal to
\* s field for field, for every state s; and readState returns null when no
\* state was ever written.
C18_RoundTripEveryState ==
  rdPc = "done" =>
    IF rdExpect.t = "null" THEN rdResult = NullV
    ELSE SameDocument(rdExpect, rdResult)

\* C18 amended: the round trip returns a document equal to s field for field
\* for every state s whose numbers are all finite (a null flightCategory
\* stays null, absent and undefined optional fields are absent); a number
\* that is not finite comes back as null; and readState returns null when no
\* state was ever written.
C18_RoundTripFiniteStates ==
  rdPc = "done" =>
    IF rdExpect.t = "null" THEN rdResult = NullV
    ELSE /\ AllFinite(rdExpect) => SameDocument(rdExpect, rdResult)
         /\ rdResult.t = "object"
         /\ LET a == rdExpect.f.airports.a[1].f
                b == rdResult.f.airports.a[1].f
            IN ("visibility" \in DOMAIN a /\ a.visibility = InfinityV)
                 => b.visibility = NullV

C18_Witness ==
  /\ rdPc = "done" /\ rdExpect.t = "object"
  /\ LET a == rdExpect.f.airports.a[1].f
         b == rdResult.f.airports.a[1].f
     IN /\ a.flightCategory = NullV /\ b.flightCategory = NullV
        /\ "visibility" \in DOMAIN a /\ a.visibility = UndefV
        /\ "visibility" \notin DOMAIN b
        /\ "temperature" \notin DOMAIN a /\ "temperature" \notin DOMAIN b

\* The file at the state path: its inode and its text.
StateFile ==
  IF paths[StatePath] = 0 THEN <<0, <<>>>>
  ELSE <<paths[StatePath], inodes[paths[StatePath]]>>

\* C19: the file at the state path, when there is one, always holds the
\* complete text of the latest completed writeState; only the rename changes
\* it, so a failed write of the temporary file leaves it as it was; and a
\* readState, at any interleaving with the writer, returns null when no
\* document existed as it opened the path and otherwise the complete
\* document that was at the state path then, never a partial one and never
\* a parse error.
C19_StateWrittenAtomically ==
  /\ []( paths[StatePath] # 0
           => inodes[paths[StatePath]] = stringify(committed) )
  /\ []( paths[StatePath] = 0 => committed = NullV )
  /\ [][ sPc # "rename" => StateFile' = StateFile ]_vars
  /\ []( rdPc = "done" =>
           rdResult = IF rdExpect.t = "null" THEN NullV
                      ELSE JSONparse(stringify(rdExpect)) )
  /\ []( rdPc = "done" => rdResult # SyntaxError )

\* A read that completes while the second write has half of its text in the
\* temporary file.
C19_Witness ==
  /\ rdPc = "done" /\ rdResult.t = "object"
  /\ sPc = "writing" /\ sWrites = 2
  /\ paths.tmp # 0
  /\ inodes[paths.tmp] # <<>>
  /\ inodes[paths.tmp] # stringify(sState)
  /\ rdResult = JSONparse(stringify(committed))

(***************************************************************************)
(* Properties of the start-up validation (SpecConfig).                     *)
(***************************************************************************)
\* The integer a setting spells, NaN when it is not an optionally signed
\* run of digits.
SettingValue(s) ==
  LET negative == s # <<>> /\ Head(s) = "-"
      digits == IF negative THEN Tail(s) ELSE s
  IN IF digits # <<>> /\ \A i \in 1..Len(digits) : digits[i] \in DigitChars
       THEN Num((IF negative THEN -1 ELSE 1) * intValue(digits))
       ELSE NaN

\* A colour setting is valid when it is three comma-separated numbers, each
\* in 0..255.
ValidTriple(s) ==
  LET parts == split(s, <<>>)
  IN /\ Len(parts) = 3
     /\ \A i \in 1..3 :
          /\ SettingValue(trim(parts[i])) # NaN
          /\ SettingValue(trim(parts[i])).v \in 0..255

BadWindBlinkThreshold ==
  /\ cEnv.WIND_BLINK_THRESHOLD.t = "str"
  /\ \/ SettingValue(cEnv.WIND_BLINK_THRESHOLD.s) = NaN
     \/ SettingValue(cEnv.WIND_BLINK_THRESHOLD.s).v < 0

BadHighWindsThreshold ==
  /\ cEnv.HIGH_WINDS_THRESHOLD.t = "str"
  /\ \/ SettingValue(cEnv.HIGH_WINDS_THRESHOLD.s) = NaN
     \/ /\ SettingValue(cEnv.HIGH_WINDS_THRESHOLD.s).v < 0
        /\ SettingValue(cEnv.HIGH_WINDS_THRESHOLD.s).v # -1

BadColor ==
  /\ cEnv.COLOR_VFR.t = "str" /\ cEnv.COLOR_VFR.s # <<>>
  /\ ~ValidTriple(cEnv.COLOR_VFR.s)

\* C20: a wind-blink threshold below 0, a high-wind threshold below 0 other
\* than -1, or a colour setting that is not three numbers in 0..255 makes
\* loadConfig throw, so that main exits and never runs with such a value.
C20_InvalidSettingsAreFatal ==
  (cPc # "in" /\ (BadWindBlinkThreshold \/ BadHighWindsThreshold \/ BadColor))
    => (cResult = ConfigError /\ cPc = "exited")

(***************************************************************************)
(* Further properties of the cycle driver (Spec, LiveSpec).                *)
(***************************************************************************)
\* The indices a tick passes to setPixel: one per airport, then the seven
\* legend entries when the legend is shown.
LegendIndex(j) == NumAirports + dConfig.offsetLegendBy + j - 1

TickTargets ==
  {PixelOf(a) : a \in 1..Len(dConfig.airports)}
    \cup (IF dConfig.showLegend THEN {LegendIndex(j) : j \in 1..7} ELSE {})

OutOfRange(i) == i < 0 \/ i >= dConfig.ledCount

\* C21: a tick that passes setPixel an index below 0 or at or above the LED
\* count completes (the driver goes on to its sleep or its normal exit, not
\* to an error path); the buffer keeps its size and every pixel no in-range
\* call addresses keeps its value; the in-range calls of the same tick write
\* their colours; and show() commits the buffer.
C21_OutOfRangeIndexIsSkipped ==
  /\ [](\A index \in {-2, -1, dConfig.ledCount, dConfig.ledCount + 1} :
         \A k \in DOMAIN dConfig.colors :
           setPixel(pixels, dConfig.ledCount, index, dConfig.colors[k])
             = pixels)
  /\ [][ (dPc = "tick" /\ \E t \in TickTargets : OutOfRange(t)) =>
           /\ dPc' \in {"sleep", "exit"}
           /\ exitCode' = exitCode
           /\ DOMAIN pixels' = DOMAIN pixels
           /\ \A i \in DOMAIN pixels :
                i \notin TickTargets => pixels'[i] = pixels[i]
           /\ \A a \in 1..Len(dConfig.airports) :
                ~OutOfRange(PixelOf(a)) =>
                  pixels'[PixelOf(a)] =
                    pack(getColorForConditions(
                           mapGet(conditionsMap, dConfig.airports[a].code),
                           windCycle, dConfig))
           /\ \A j \in 1..7 :
                (dConfig.showLegend /\ ~OutOfRange(LegendIndex(j))) =>
                  pixels'[LegendIndex(j)] =
                    pack(getLegendColors(windCycle, dConfig)[j])
           /\ strip' = pixels' ]_vars

\* A tick with the legend moved one LED up: its seventh entry is at the LED
\* count and is skipped, the sixth is on the last LED, the LED between the
\* airports and the legend stays off.
C21_Witness ==
  /\ dPc = "sleep" /\ windCycle
  /\ dConfig.showLegend /\ dConfig.offsetLegendBy = 1
  /\ OutOfRange(LegendIndex(7))
  /\ strip[LegendIndex(6)] = pack(getLegendColors(windCycle, dConfig)[6])
  /\ strip[NumAirports] = 0
  /\ strip = pixels

\* C22: the phase of every committed frame differs from the phase of the
\* frame committed before it, in the bounded runs and in the continuous
\* run, across a re-fetch as well; the first frame is committed with the
\* phase off.
C22_PhaseAlternatesBetweenCommits ==
  [][ dPc = "tick" =>
        /\ lastPhase = "none" => lastPhase' = "off"
        /\ lastPhase # "none" => lastPhase' # lastPhase ]_vars

\* C23 as stated: the shutdown handler never runs while the driver is
\* waiting for the fetch; it runs only once the fetch has returned or
\* timed out.
C23_HandlerWaitsForFetch ==
  [][ (~shuttingDown /\ shuttingDown') => dPc # "fetch" ]_vars

\* C23 amended: a shutdown signal that arrives while the driver is waiting
\* for the fetch is acted upon during the fetch: the handler can run at once,
\* it runs its cleanup and exits the process without waiting for the fetch,
\* and the outcome of that fetch is never recorded or displayed.
C23_HandlerRunsDuringFetch ==
  /\ []( (dPc = "fetch" /\ ~shuttingDown) => ENABLED Shutdown )
  /\ [][ (dPc = "fetch" /\ shuttingDown') =>
           /\ dPc' = "exited"
           /\ cleanupResult' \in {"ok", "threw"}
           /\ exitCode' = (IF cleanupResult' = "ok" THEN Num(0) ELSE Num(1))
           /\ AllOff(pixels')
           /\ cleanupResult' = "ok" => AllOff(strip')
           /\ UNCHANGED <<lastFetch, metarData, conditionsMap, ticks>> ]_vars
  /\ [][ shuttingDown =>
           UNCHANGED <<lastFetch, metarData, conditionsMap, ticks, strip,
                       dPc, exitCode>> ]_vars

\* The signal arrived during the first fetch of the run: the process has
\* exited through the handler although no fetch ever returned.
C23_Witness ==
  /\ shuttingDown /\ dPc = "exited" /\ cleanupResult = "ok"
  /\ exitCode = Num(0)
  /\ lastFetch = "none" /\ ticks = 0 /\ metarData = <<>>

\* C24: in the continuous run, whenever a tick is due or has just been
\* committed the latest update succeeded and the condition set is exactly
\* the set built from the reports of that one fetch (one entry per report,
\* no entry of an earlier fetch); the committed frame is resolved from that
\* set for every airport; the set changes only in the step that completes
\* a fetch, between two animation periods, and a failed fetch changes
\* neither the set nor the frame and is followed by no tick before the next
\* successful fetch.
C24_TicksReadOneFetch ==
  /\ []( (variant = "continuous" /\ dPc \in {"tick", "sleep"}) =>
          /\ lastFetch = "ok"
          /\ DOMAIN conditionsMap = Reported
          /\ \A i \in 1..Len(metarData) :
               conditionsMap[metarData[i].icaoId]
                 = parseConditions(metarData[i], dConfig) )
  /\ []( (variant = "continuous" /\ dPc = "sleep") =>
          strip = ExpectedFrame(windCycle) )
  /\ [][ (variant = "continuous" /\ conditionsMap' # conditionsMap) =>
           (dPc = "fetch" /\ dPc' = "tick" /\ lastFetch' = "ok") ]_vars
  /\ [][ (variant = "continuous" /\ dPc = "fetch" /\ lastFetch' = "error"
           /\ ~shuttingDown') =>
           (dPc' = "backoff" /\ UNCHANGED <<conditionsMap, strip, pixels>>)
       ]_vars

\* A re-fetch has just completed with a response that omits the first
\* airport: the frame on the strip, of the previous animation period, still
\* lights that airport, and the new set has no entry for it.
C24_Witness ==
  /\ variant = "continuous" /\ dPc = "tick" /\ ticks = 0
  /\ lastPhase # "none" /\ lastFetch = "ok"
  /\ strip[PixelOf(1)] # pack(dConfig.colors.clear)
  /\ dConfig.airports[1].code \notin DOMAIN conditionsMap
  /\ dConfig.airports[2].code \in DOMAIN conditionsMap

(***************************************************************************)
(* Further properties of calculateFlightCategory (SpecClassifier).         *)
(***************************************************************************)
\* The layers of the input that are broken, overcast or obscured.
fCeilingLayers ==
  SelectSeq(fLayers, LAMBDA l : l.cover \in {"BKN", "OVC", "OVX"})

\* The category of a visibility taken alone.
VisibilityAlone(v) ==
  IF v < 1 * VisUnit THEN "LIFR"
  ELSE IF v < 3 * VisUnit THEN "IFR"
  ELSE IF v < 5 * VisUnit THEN "MVFR"
  ELSE "VFR"

\* C25: the ceiling calculateFlightCategory uses is the lowest base among
\* the BKN, OVC and OVX layers, a missing base read as 0, and 10000
\* (unbounded) when there is no such layer; for a positive visibility the
\* result is the one obtained with the FEW, SCT, SKC and CLR layers removed,
\* whatever their bases; it is LIFR when a BKN, OVC or OVX layer has no
\* base; and with no such layer, the empty and the absent list included, it
\* is the category of the visibility alone.
C25_CeilingFromBrokenOvercastObscured ==
  fPc = "done" =>
    /\ findCeiling(fSky) = fCeiling
    /\ (fVisibility.t = "num" /\ fVisibility.v > 0) =>
         /\ fCategory = calculateFlightCategory(fVisibility,
                                                Arr(fCeilingLayers))
         /\ (\E i \in 1..Len(fCeilingLayers) :
               fCeilingLayers[i].base = UndefV) => fCategory = "LIFR"
         /\ fCeilingLayers = <<>> =>
              /\ findCeiling(fSky) = 10000
              /\ fCategory = VisibilityAlone(fVisibility.v)

\* A scattered layer at 499 ft under a broken layer at 2999 ft, visibility
\* 10: the scattered layer does not count, the result is MVFR.
C25_Witness ==
  /\ fPc = "done"
  /\ fVisibility = Num(10 * VisUnit)
  /\ fSky = Arr(<<Layer("SCT", Num(499)), Layer("BKN", Num(2999))>>)
  /\ fCategory = "MVFR"

(***************************************************************************)
(* Further properties of parseConditions (SpecConditions).                 *)
(***************************************************************************)
\* sub occurs in s at position i.
OccursAt(s, sub, i) ==
  /\ i + Len(sub) - 1 <= Len(s)
  /\ \A k \in 1..Len(sub) : s[i + k - 1] = sub[k]

Contains(s, sub) == \E i \in 1..Len(s) : OccursAt(s, sub, i)

\* sub occurs in s entirely after the first 4 characters.
ContainsAfterStation(s, sub) ==
  \E i \in 5..Len(s) : OccursAt(s, sub, i)

\* C26: the lightning flag parseConditions sets is true exactly when the raw
\* observation is a text that nowhere contains "TSNO" and that contains
\* "LTG" or "TS" after its first 4 characters; it is false for a text with
\* "TSNO" even if "LTG" or "TS" occurs too, and false for an absent or
\* empty text.
C26_LightningUnlessNoSensor ==
  ePc # "in" =>
    /\ eConditions.lightning =
         ( /\ eMetar.rawOb.t = "str"
           /\ ~Contains(eMetar.rawOb.s, <<"T", "S", "N", "O">>)
           /\ \/ ContainsAfterStation(eMetar.rawOb.s, <<"L", "T", "G">>)
              \/ ContainsAfterStation(eMetar.rawOb.s, <<"T", "S">>) )
    /\ eMetar.rawOb \in {UndefV, Str(<<>>), Str(ObsNoSensor)}
         => ~eConditions.lightning

\* The text holds both the sentinel and a lightning remark.
C26_Witness ==
  /\ ePc = "parsed"
  /\ eMetar.rawOb = Str(ObsNoSensor)
  /\ Contains(eMetar.rawOb.s, <<"L", "T", "G">>)
  /\ ~eConditions.lightning

\* The speed a report gives, 0 when the field is absent.
SpeedOf(x) == IF x = UndefV THEN 0 ELSE x.v

\* C27: the windGust flag parseConditions sets is true exactly when the
\* always-blink-for-gusts setting is on and the gust speed is above 0, or
\* the gust speed is strictly above the wind-blink threshold, whatever the
\* wind speed is; an absent wind speed or gust speed is recorded as 0.
C27_GustyAboveThreshold ==
  ePc # "in" =>
    /\ eConditions.windSpeed = SpeedOf(eMetar.wspd)
    /\ eConditions.windGustSpeed = SpeedOf(eMetar.wgst)
    /\ eConditions.windGust <=>
         \/ eConfig.alwaysBlinkForGusts /\ SpeedOf(eMetar.wgst) > 0
         \/ SpeedOf(eMetar.wgst) > eConfig.windBlinkThreshold

\* A gust exactly at the threshold, with a wind speed above it, is not
\* gusty.
C27_Witness ==
  /\ ePc = "parsed"
  /\ eMetar.wgst = Num(15) /\ eMetar.wspd = Num(30)
  /\ eConfig.windBlinkThreshold = 15 /\ ~eConfig.alwaysBlinkForGusts
  /\ ~eConditions.windGust

\* The visibility of the report as the reference parser reads it.
eRefVisibility == RefParseVisibility(eMetar.visib)

\* C28: parseConditions returns a condition for every report; its category
\* is the report's own category when the report supplies one, whatever the
\* visibility and cloud fields hold; otherwise it is
\* calculateFlightCategory(parseVisibility(visib), clouds), and it is
\* UNKNOWN (null) when the visibility is missing, malformed, zero or
\* negative.
C28_CategorySuppliedOrClassified ==
  ePc # "in" =>
    /\ eConditions.t = "obj"
    /\ ~Falsy(eMetar.fltCat) =>
         eConditions.flightCategory = eMetar.fltCat
    /\ Falsy(eMetar.fltCat) =>
         /\ eConditions.flightCategory =
              calculateFlightCategory(parseVisibility(eMetar.visib),
                                      eMetar.clouds)
         /\ (eRefVisibility = NullV \/ eRefVisibility = Num(0)) =>
              eConditions.flightCategory = Null

(***************************************************************************)
(* Properties of the driver under the Configs loadConfig accepts (Spec).   *)
(***************************************************************************)
\* C29: with the legend enabled, after every tick each of the 7 legend
\* indices (number of airports + OFFSET_LEGEND_BY + 0..6) is an index of the
\* strip, is not the index of an airport, and shows its legend colour: no
\* legend entry is skipped as out of range.
C29_LegendFitsOnStrip ==
  (JustTicked /\ dConfig.showLegend) =>
    \A j \in 1..7 :
      /\ ~OutOfRange(LegendIndex(j))
      /\ \A a \in 1..Len(dConfig.airports) : PixelOf(a) # LegendIndex(j)
      /\ strip[LegendIndex(j)] = pack(getLegendColors(windCycle, dConfig)[j])

\* C30: a bounded run whose fetch succeeded and which has exited with code
\* 0 after its animation loop has committed at least one frame.
C30_BoundedRunShowsAFrame ==
  ( /\ variant \in {"bounded", "boundedExport"}
    /\ lastFetch = "ok" /\ ~shuttingDown
    /\ dPc = "exited" /\ exitCode = Num(0) )
    => (ticks >= 1 /\ lastPhase # "none")

====
